---- MODULE Spec2Model ----
(***************************************************************************)
(* Model of the Gemini transcription client in src/transcriber.py: model   *)
(* resolution, prompt cache, transient retry, thinking-mode downgrade and  *)
(* model failover of the Transcriber class.                                *)
(*                                                                         *)
(* Strings that the code inspects are sequences of tokens: a model name    *)
(* is a sequence such as <<"models/", "gemini-2.5-flash">>, an error       *)
(* message is a sequence of words, a response text a sequence of           *)
(* characters.  The empty sequence <<>> is Python's "".                    *)
(***************************************************************************)
EXTENDS Integers, Sequences, FiniteSets, TLC

(***************************************************************************)
(* Bounds of the model.                                                    *)
(***************************************************************************)
\* longest model list the provider returns
MaxLive == 2

\* longest response text, in characters, and most candidates of a response
MaxText == 5
MaxCandidates == 2

\* longest error message put together from the words of the classifiers
MaxWords == 3

(***************************************************************************)
(* Class constants of Transcriber.                                         *)
(***************************************************************************)
MODEL == <<"gemini-2.5-flash">>

MODEL_ALIASES == { <<"gemini-3.0-flash", "gemini-3-flash-preview">> }

PREFERRED_MODELS ==
    << <<"gemini-3-flash-preview">>, MODEL, <<"gemini-2.0-flash">>, <<"gemini-flash-latest">> >>

MAX_TRANSIENT_RETRIES == 1

DEFAULT_THINKING_LEVEL == <<"minimal">>

\* _THINKING_LEVEL_MAP, as pairs of a name and a genai_types.ThinkingLevel
THINKING_LEVEL_MAP ==
    { << <<"minimal">>, "MINIMAL" >>, << <<"low">>, "LOW" >>,
      << <<"medium">>, "MEDIUM" >>, << <<"high">>, "HIGH" >> }

\* RETRY_BACKOFF_SECONDS, in tenths of a second
RETRY_BACKOFF_TENTHS == 3

\* TIMEOUT, in seconds
TIMEOUT == 10

(***************************************************************************)
(* Generic helpers on sequences.                                           *)
(***************************************************************************)
Range(s) == { s[i] : i \in 1..Len(s) }

SeqsUpTo(S, n) == UNION { [1..k -> S] : k \in 0..n }

\* Python's `phrase in message` for a phrase made of whole words
ContainsPhrase(msg, phrase) ==
    \E i \in 1..(Len(msg) - Len(phrase) + 1) :
        \A j \in 1..Len(phrase) : msg[i + j - 1] = phrase[j]

(***************************************************************************)
(* Error messages.  str(error).lower() is Lower applied word by word.      *)
(***************************************************************************)
LowerWord(w) ==
    CASE w = "Deadline" -> "deadline"
      [] w = "PERMISSION_DENIED" -> "permission_denied"
      [] w = "MINIMAL" -> "minimal"
      [] w = "Low" -> "low"
      [] w = "Medium" -> "medium"
      [] w = "HIGH" -> "high"
      [] w = "Max" -> "max"
      [] w = "Thinking" -> "thinking"
      [] w = "PERMISSION_DENIED:" -> "permission_denied:"
      [] w = "CachedContent" -> "cachedcontent"
      [] w = "API" -> "api"
      [] OTHER -> w

LowerMsg(msg) == [i \in 1..Len(msg) |-> LowerWord(msg[i])]

\* words of the vocabulary that contain "models/" as a substring
WordsWithModelsPrefix == { "models/gemini-2.5-flash" }

MsgDeadline == <<"504", "Deadline", "expired">>
MsgThinking == <<"Thinking", "level", "is", "not", "supported">>
MsgModelNotFound ==
    <<"404", "models/gemini-2.5-flash", "is", "not", "found", "for", "API", "version">>
MsgCachedContent == <<"403", "PERMISSION_DENIED:", "CachedContent", "not", "found">>
MsgQuota == <<"PERMISSION_DENIED:", "quota", "exceeded">>
MsgCacheDeadline == <<"504", "CachedContent", "not", "found">>
MsgThinkingTimeout == <<"timeout", "Thinking", "level", "is", "not", "supported">>

\* the messages of test_is_cached_content_error_patterns that are not above
MsgCacheVersion == <<"CachedContent", "not", "found", "for", "API", "version", "v1beta">>
MsgCacheExpired == <<"PERMISSION_DENIED:", "cached", "content", "expired">>
MsgCachedResource == <<"permission_denied", "something", "about", "cached", "resource">>
MsgPlainNotFound == <<"404", "model", "not", "found">>
MsgInternal == <<"500", "internal", "server", "error">>

\* words the classifiers look for, to put messages together from
FaultWords ==
    { "CachedContent", "cached", "not", "found", "expired", "PERMISSION_DENIED",
      "quota", "504", "timeout" }

\* every message of the model
ErrorMessages ==
    { MsgDeadline, MsgThinking, MsgModelNotFound, MsgCachedContent, MsgQuota,
      MsgCacheDeadline, MsgThinkingTimeout }

\* the messages generate_content fails with in the model of a session
GenerateErrors ==
    { MsgDeadline, MsgThinking, MsgModelNotFound, MsgCachedContent, MsgQuota }

\* _is_model_not_found_error
IsModelNotFoundError(error) ==
    LET message == LowerMsg(error) IN
        \/ ContainsPhrase(message, <<"is", "not", "found", "for", "api", "version">>)
        \/ /\ "404" \in Range(message)
           /\ Range(message) \cap WordsWithModelsPrefix # {}
           /\ ContainsPhrase(message, <<"not", "found">>)

\* _is_transient_api_error
IsTransientApiError(error) ==
    LET message == LowerMsg(error)
        transient_patterns ==
            { <<"deadline", "expired">>, <<"timed", "out">>, <<"timeout">>,
              <<"temporarily", "unavailable">>, <<"service", "unavailable">> }
        has_http_hint ==
            \/ Range(message) \cap {"429", "500", "502", "503", "504"} # {}
            \/ ContainsPhrase(message, <<"too", "many", "requests">>)
    IN  (\E pattern \in transient_patterns : ContainsPhrase(message, pattern))
        \/ has_http_hint

\* _is_thinking_level_unsupported_error
IsThinkingLevelUnsupportedError(error) ==
    ContainsPhrase(LowerMsg(error), <<"thinking", "level", "is", "not", "supported">>)

\* variant: any permission-denied failure is a cached-content failure
IsCachedContentError_AnyPermissionDenied(error) ==
    \/ Range(LowerMsg(error)) \cap { "permission_denied:", "permission_denied" } # {}
    \/ /\ Range(LowerMsg(error)) \cap { "cachedcontent", "cached" } # {}
       /\ \/ ContainsPhrase(LowerMsg(error), <<"not", "found">>)
          \/ "expired" \in Range(LowerMsg(error))

\* _is_cached_content_error: the message names the cached-content entity and a
\* not-found, expired or permission-denied condition
IsCachedContentError(error) ==
    LET message == LowerMsg(error) IN
        /\ Range(message) \cap { "cachedcontent", "cached" } # {}
        /\ \/ ContainsPhrase(message, <<"not", "found">>)
           \/ "expired" \in Range(message)
           \/ Range(message) \cap { "permission_denied:", "permission_denied" } # {}

(***************************************************************************)
(* Strings and model names.                                                *)
(***************************************************************************)
\* the whitespace str.strip() removes, among the characters of the model
Whitespace == { " ", "\n" }

RECURSIVE LStrip(_)
LStrip(s) == IF Len(s) > 0 /\ Head(s) \in Whitespace THEN LStrip(Tail(s)) ELSE s

RECURSIVE RStrip(_)
RStrip(s) ==
    IF Len(s) > 0 /\ s[Len(s)] \in Whitespace
    THEN RStrip(SubSeq(s, 1, Len(s) - 1)) ELSE s

\* str.strip()
Strip(s) == RStrip(LStrip(s))

\* str.removeprefix("models/")
RemovePrefixModels(s) == IF Len(s) > 0 /\ Head(s) = "models/" THEN Tail(s) ELSE s

\* _normalize_model_name
NormalizeModelName(model_name) ==
    LET normalized == Strip(RemovePrefixModels(model_name)) IN
        IF \E a \in MODEL_ALIASES : normalized = <<a[1]>>
        THEN <<(CHOOSE a \in MODEL_ALIASES : normalized = <<a[1]>>)[2]>>
        ELSE normalized

\* variant: every preferred model is appended, listed already or not
AppendMissing_KeepsDuplicates(candidates, rest) ==
    candidates \o rest

\* variant: the configured level is looked up as written, upper case included
ResolveThinkingLevel_CaseSensitive(raw) ==
    LET raw_level == Strip(IF raw.set THEN raw.value ELSE DEFAULT_THINKING_LEVEL) IN
        IF \E p \in THINKING_LEVEL_MAP : p[1] = raw_level
        THEN [level |-> (CHOOSE p \in THINKING_LEVEL_MAP : p[1] = raw_level)[2],
              warned |-> FALSE, raised |-> FALSE]
        ELSE [level |-> "MINIMAL", warned |-> TRUE, raised |-> FALSE]

\* _resolve_thinking_level; raw is VOICECODE_THINKING_LEVEL, set or not; the
\* result is the level, whether the warning was logged, whether KeyError was raised
ResolveThinkingLevel(raw) ==
    LET raw_level ==
            LowerMsg(Strip(IF raw.set THEN raw.value ELSE DEFAULT_THINKING_LEVEL))
    IN  IF \E p \in THINKING_LEVEL_MAP : p[1] = raw_level
        THEN [level |-> (CHOOSE p \in THINKING_LEVEL_MAP : p[1] = raw_level)[2],
              warned |-> FALSE, raised |-> FALSE]
        ELSE IF \E p \in THINKING_LEVEL_MAP : p[1] = DEFAULT_THINKING_LEVEL
        THEN [level |-> (CHOOSE p \in THINKING_LEVEL_MAP :
                             p[1] = DEFAULT_THINKING_LEVEL)[2],
              warned |-> TRUE, raised |-> FALSE]
        ELSE [level |-> "none", warned |-> TRUE, raised |-> TRUE]

\* _build_model_candidates; env is the value of VOICECODE_GEMINI_MODEL ("" when unset)
RECURSIVE AppendMissing(_, _)
AppendMissing(candidates, rest) ==
    IF rest = <<>> THEN candidates
    ELSE AppendMissing(
            IF Head(rest) \in Range(candidates) THEN candidates
            ELSE Append(candidates, Head(rest)),
            Tail(rest))

BuildModelCandidates(env) ==
    LET configured_model == Strip(env) IN
        AppendMissing(
            IF configured_model # <<>> THEN <<NormalizeModelName(configured_model)>> ELSE <<>>,
            PREFERRED_MODELS)

\* variant: every listed model is taken, whatever it supports
RECURSIVE ListAvailableModels_AnyAction(_)
ListAvailableModels_AnyAction(models) ==
    IF models = <<>> THEN <<>>
    ELSE LET model == Head(models)
             rest == ListAvailableModels_AnyAction(Tail(models))
         IN  IF model.name # <<>> THEN <<NormalizeModelName(model.name)>> \o rest
             ELSE rest

\* _list_available_models, on the list the provider returned
RECURSIVE ListAvailableModels(_)
ListAvailableModels(models) ==
    IF models = <<>> THEN <<>>
    ELSE LET model == Head(models)
             rest == ListAvailableModels(Tail(models))
         IN  IF "generateContent" \notin model.supported_actions THEN rest
             ELSE IF model.name # <<>> THEN <<NormalizeModelName(model.name)>> \o rest
             ELSE rest

\* variant: the first allowed element, excluded or not
RECURSIVE FirstNotIn_IgnoresExcluded(_, _, _)
FirstNotIn_IgnoresExcluded(s, allowed, excluded) ==
    IF s = <<>> THEN <<>>
    ELSE IF Head(s) \in allowed THEN Head(s)
    ELSE FirstNotIn_IgnoresExcluded(Tail(s), allowed, excluded)

\* first element of s that satisfies neither exclusion nor absence, else ""
RECURSIVE FirstNotIn(_, _, _)
FirstNotIn(s, allowed, excluded) ==
    IF s = <<>> THEN <<>>
    ELSE IF Head(s) \in allowed /\ Head(s) \notin excluded THEN Head(s)
    ELSE FirstNotIn(Tail(s), allowed, excluded)

\* variant: when the list cannot be fetched the override is returned as written
ResolveModelName_RawOverride(env, exclude, listing) ==
    IF ~listing.ok
    THEN IF Strip(env) # <<>> /\ Strip(env) \notin exclude THEN Strip(env)
         ELSE IF MODEL \notin exclude THEN MODEL
         ELSE <<>>
    ELSE LET available_models == ListAvailableModels(listing.models)
             candidate == FirstNotIn(BuildModelCandidates(env),
                                     Range(available_models), exclude)
         IN  IF candidate # <<>> THEN candidate
             ELSE FirstNotIn(available_models, Range(available_models), exclude)

\* variant: no model is returned when no candidate is live
ResolveModelName_NoLastResort(env, exclude, listing) ==
    IF ~listing.ok
    THEN IF Strip(env) # <<>> /\ NormalizeModelName(Strip(env)) \notin exclude
         THEN NormalizeModelName(Strip(env))
         ELSE IF MODEL \notin exclude THEN MODEL
         ELSE <<>>
    ELSE FirstNotIn(BuildModelCandidates(env),
                    Range(ListAvailableModels(listing.models)), exclude)

\* variant: the live list is walked first, and its first candidate is returned
ResolveModelName_LiveOrder(env, exclude, listing) ==
    IF ~listing.ok
    THEN IF Strip(env) # <<>> /\ NormalizeModelName(Strip(env)) \notin exclude
         THEN NormalizeModelName(Strip(env))
         ELSE IF MODEL \notin exclude THEN MODEL
         ELSE <<>>
    ELSE LET available_models == ListAvailableModels(listing.models)
             candidate == FirstNotIn(available_models,
                                     Range(BuildModelCandidates(env)), exclude)
         IN  IF candidate # <<>> THEN candidate
             ELSE FirstNotIn(available_models, Range(available_models), exclude)

\* listing is the outcome of _client_list_models: [ok, models]
\* _resolve_model_name
ResolveModelName(env, exclude, listing) ==
    LET excluded_models == exclude
        candidates == BuildModelCandidates(env)
        stripped == Strip(env)
        configured_model == IF stripped # <<>> THEN NormalizeModelName(stripped) ELSE <<>>
    IN  IF ~listing.ok
        THEN IF configured_model # <<>> /\ configured_model \notin excluded_models
             THEN configured_model
             ELSE IF MODEL \notin excluded_models THEN MODEL
             ELSE <<>>
        ELSE LET available_models == ListAvailableModels(listing.models)
                 candidate == FirstNotIn(candidates, Range(available_models), excluded_models)
             IN  IF candidate # <<>> THEN candidate
                 ELSE FirstNotIn(available_models, Range(available_models), excluded_models)

(***************************************************************************)
(* Responses and result text.                                              *)
(***************************************************************************)
\* an attribute that is a str, or anything else (None, missing)
Str(s) == [isStr |-> TRUE, s |-> s]
NotStr == [isStr |-> FALSE, s |-> <<>>]

\* re.sub(r"<[^>]+>", "", s): the leftmost "<", one or more non-">", then ">"
RECURSIVE FirstClose(_, _)
FirstClose(s, i) ==
    IF i > Len(s) THEN 0 ELSE IF s[i] = ">" THEN i ELSE FirstClose(s, i + 1)

\* rest[i] is what the substitution leaves of s from position i on
RemoveTags(s) ==
    LET rest[i \in 1..(Len(s) + 1)] ==
            IF i > Len(s) THEN <<>>
            ELSE LET k == FirstClose(s, i + 1) IN
                 IF s[i] = "<" /\ k >= i + 2
                 THEN rest[k + 1]
                 ELSE <<s[i]>> \o rest[i + 1]
    IN  rest[1]

RECURSIVE JoinPartTexts(_)
JoinPartTexts(content_parts) ==
    IF content_parts = <<>> THEN <<>>
    ELSE (IF Head(content_parts).text.isStr THEN Head(content_parts).text.s ELSE <<>>)
         \o JoinPartTexts(Tail(content_parts))

RECURSIVE JoinCandidates(_)
JoinCandidates(candidates) ==
    IF candidates = <<>> THEN <<>>
    ELSE (IF Head(candidates).hasContent
          THEN JoinPartTexts(Head(candidates).parts) ELSE <<>>)
         \o JoinCandidates(Tail(candidates))

\* variant: only the first candidate is read
ExtractResponseText_FirstCandidateOnly(response) ==
    IF response.text.isStr /\ response.text.s # <<>> THEN response.text.s
    ELSE IF response.candidates = <<>> THEN <<>>
    ELSE JoinCandidates(<<Head(response.candidates)>>)

\* _extract_response_text
ExtractResponseText(response) ==
    IF response.text.isStr /\ response.text.s # <<>> THEN response.text.s
    ELSE JoinCandidates(response.candidates)

\* variant: the whitespace is stripped before the tags are removed
CleanResult_StripFirst(raw_text) == RemoveTags(Strip(raw_text))

\* transcribe, line 389
CleanResult(raw_text) == Strip(RemoveTags(raw_text))

\* what the provider may answer to generate_content
RespTagged ==
    [text |-> Str(<<" ", "<", "o", ">", "a", "<", "/", "o", ">", " ", "\n">>),
     candidates |-> <<>>]
RespParts ==
    [text |-> NotStr,
     candidates |-> << [hasContent |-> TRUE,
                        parts |-> << [text |-> Str(<<"a">>)], [text |-> NotStr],
                                     [text |-> Str(<<"b", " ">>)] >>] >>]
NoResponse == [text |-> NotStr, candidates |-> <<>>]

Responses == { RespTagged, RespParts }

(***************************************************************************)
(* The provider (Gemini API), seen from the client.                        *)
(***************************************************************************)
\* entries of client.models.list()
LiveEntries ==
    { [name |-> <<"models/", "gemini-3-flash-preview">>, supported_actions |-> {"generateContent"}],
      [name |-> <<"models/", "gemini-2.5-flash">>, supported_actions |-> {"generateContent"}],
      [name |-> <<"models/", "gemini-1.5-pro">>, supported_actions |-> {"generateContent"}],
      [name |-> <<"models/", "embedding-001">>, supported_actions |-> {"embedContent"}] }

\* outcomes of _client_list_models: an exception, or a list
ListOutcomes ==
    { [ok |-> FALSE, models |-> <<>>] }
    \cup { [ok |-> TRUE, models |-> l] : l \in SeqsUpTo(LiveEntries, MaxLive) }

\* outcomes of client.caches.create: an exception, a cache without a name, a cache
CreateOutcomes == { "error", "noname", "created" }

\* the name the provider gives the cache it creates for a model
CacheNameFor(model) == <<"cachedContents/">> \o model

\* outcomes of client.models.generate_content: a response, or an exception
GenerateOutcomes ==
    { [ok |-> TRUE, response |-> r, error |-> <<>>] : r \in Responses }
    \cup { [ok |-> FALSE, response |-> NoResponse, error |-> m] : m \in GenerateErrors }

\* values of VOICECODE_GEMINI_MODEL
ConfiguredModels == { <<>>, <<"gemini-3.0-flash">> }

Callers == { "c1", "c2" }

\* every value self._model_name can take
ModelNames ==
    { <<>>, MODEL } \cup Range(PREFERRED_MODELS)
    \cup { NormalizeModelName(x.name) : x \in LiveEntries }
    \cup { NormalizeModelName(x) : x \in ConfiguredModels }

\* the empty dict: no model has a cache name ("" stands for a missing key)
EmptyCache == [m \in ModelNames |-> <<>>]

(***************************************************************************)
(* State.                                                                  *)
(***************************************************************************)
VARIABLES
    callers,                      \* the threads that call transcribe
    api_key,                      \* TRUE when an API key is given or in the environment
    env_model,                    \* VOICECODE_GEMINI_MODEL
    enable_prompt_cache,          \* self._enable_prompt_cache
    lifecycle,                    \* "new", "ready" (constructed), "failed" (__init__ raised)
    model_name,                   \* self._model_name
    thinking_mode,                \* self._thinking_mode
    prompt_cache_name_by_model,   \* self._prompt_cache_name_by_model
    init,                         \* what __init__ did: client, provider calls, logs,
                                  \* failure of its cache-create call
    call,                         \* per caller: the frame of its transcribe call
    probe                         \* one application of a name-resolution method

vars ==
    << callers, api_key, env_model, enable_prompt_cache, lifecycle, model_name,
       thinking_mode, prompt_cache_name_by_model, init, call, probe >>

env == << callers, api_key, env_model, enable_prompt_cache, probe >>

NoResult == [kind |-> "none", text |-> <<>>, elapsed |-> 0, exc |-> ""]

NoConfig ==
    [cached_content |-> <<>>, system_instruction |-> FALSE, thinking |-> "none",
     temperature |-> 0]

Snapshot ==
    [model_name |-> model_name, thinking_mode |-> thinking_mode,
     cache |-> prompt_cache_name_by_model]

\* the frame of a caller that is not inside transcribe
IdleCall ==
    [pc |-> "idle", phase |-> "none", site |-> "loop", attempt |-> 0, audio |-> "none",
     reqModel |-> <<>>, reqCfg |-> NoConfig, e |-> <<>>, retry_error |-> <<>>,
     fallback_model |-> <<>>,
     trace |-> <<>>, genCalls |-> 0, listCalls |-> 0, createCalls |-> 0,
     switches |-> 0, executes |-> 0, ensured |-> <<>>, sleeps |-> <<>>, logs |-> <<>>,
     createFailed |-> FALSE,
     ticks |-> 0,
     result |-> NoResult, start |-> [model_name |-> <<>>, thinking_mode |-> "none",
                                     cache |-> EmptyCache]]

Log(level, what, model, elapsed) ==
    [level |-> level, what |-> what, model |-> model, elapsed |-> elapsed]

(***************************************************************************)
(* Pure steps of the Transcriber methods.                                  *)
(***************************************************************************)
\* variant: the inline instruction is sent along with the cache reference
BuildGenerateConfig_Both(mode, cache, model) ==
    [cached_content |-> cache[model], system_instruction |-> TRUE,
     thinking |-> IF mode = "level" THEN "level" ELSE "budget0", temperature |-> 0]

\* variant: the config carries the thinking level whatever the mode
BuildGenerateConfig_AlwaysLevel(mode, cache, model) ==
    IF cache[model] # <<>>
    THEN [cached_content |-> cache[model], system_instruction |-> FALSE,
          thinking |-> "level", temperature |-> 0]
    ELSE [cached_content |-> <<>>, system_instruction |-> TRUE,
          thinking |-> "level", temperature |-> 0]

\* variant: the cache name is the one stored for the default model
BuildGenerateConfig_DefaultCache(mode, cache, model) ==
    LET thinking_config == IF mode = "level" THEN "level" ELSE "budget0"
        cached_content_name == cache[MODEL]
    IN  IF cached_content_name # <<>>
        THEN [cached_content |-> cached_content_name, system_instruction |-> FALSE,
              thinking |-> thinking_config, temperature |-> 0]
        ELSE [cached_content |-> <<>>, system_instruction |-> TRUE,
              thinking |-> thinking_config, temperature |-> 0]

\* _build_generate_config
BuildGenerateConfig(mode, cache, model) ==
    LET thinking_config == IF mode = "level" THEN "level" ELSE "budget0"
        cached_content_name == cache[model]
    IN  IF cached_content_name # <<>>
        THEN [cached_content |-> cached_content_name, system_instruction |-> FALSE,
              thinking |-> thinking_config, temperature |-> 0]
        ELSE [cached_content |-> <<>>, system_instruction |-> TRUE,
              thinking |-> thinking_config, temperature |-> 0]

\* variant: a cache is created whether the model has an entry or not
EnsureCallsCreate_IgnoresExisting(enabled, cache, model) ==
    enabled

\* variant: a cache is created for a model without an entry, enabled or not
EnsureCallsCreate_IgnoresFlag(enabled, cache, model) ==
    cache[model] = <<>>

\* _ensure_prompt_cache: TRUE when client.caches.create is called
EnsureCallsCreate(enabled, cache, model) ==
    enabled /\ cache[model] = <<>>

\* variant: a cache-create call that fails leaves an entry behind
EnsurePromptCache_StoresOnError(enabled, cache, model, created) ==
    IF ~(enabled /\ cache[model] = <<>>) THEN cache
    ELSE IF created \in { "created", "error" }
         THEN [cache EXCEPT ![model] = <<"cachedContents/">> \o model]
    ELSE cache

\* _ensure_prompt_cache: the dict afterwards, created being the outcome of the call
EnsurePromptCache(enabled, cache, model, created) ==
    IF ~EnsureCallsCreate(enabled, cache, model) THEN cache
    ELSE IF created = "created" THEN [cache EXCEPT ![model] = CacheNameFor(model)]
    ELSE cache

\* variant: a refused thinking level is handled like any other failure
DowngradeApplies_Never(mode, e) ==
    FALSE

\* _generate_content_with_retry, line 311: the one-shot downgrade applies
DowngradeApplies(mode, e) ==
    mode = "level" /\ IsThinkingLevelUnsupportedError(e)

\* the messages the classifiers are applied to
RawMessages ==
    ErrorMessages
    \cup { MsgCacheVersion, MsgCacheExpired, MsgCachedResource, MsgPlainNotFound,
           MsgInternal }
    \cup SeqsUpTo(FaultWords, MaxWords)

\* variant: transient failures are retried without a budget
MustRaise_NoBudget(e, attempt) ==
    ~IsTransientApiError(e)

\* variant: every failure is raised at once, transient or not
MustRaise_Always(e, attempt) ==
    TRUE

\* _generate_content_with_retry, lines 305 and 316: the failure is re-raised
\* (the loop of line 305 ends at the same attempt, so lines 325-326 are never reached)
MustRaise(e, attempt) ==
    ~IsTransientApiError(e) \/ attempt >= MAX_TRANSIENT_RETRIES

\* _generate_content_with_retry, lines 308-323: what the except block does with
\* failure e of the call of this attempt
Handling(mode, e, attempt) ==
    IF DowngradeApplies(mode, e) THEN "downgrade"
    ELSE IF MustRaise(e, attempt) THEN "raise"
    ELSE "sleep"

\* _generate_content_with_retry, line 319, in tenths of a second
\* variant: the wait grows with the attempts already slept for, from zero
WaitTenths_FromZero(attempt) == RETRY_BACKOFF_TENTHS * attempt

WaitTenths(attempt) == RETRY_BACKOFF_TENTHS * (attempt + 1)

\* variant: only a missing model makes transcribe look for another model
FailoverApplies_OnlyNotFound(e) ==
    IsModelNotFoundError(e)

\* variant: every failure makes transcribe look for another model
FailoverApplies_Always(e) ==
    TRUE

\* transcribe, line 341: the failure makes transcribe look for another model
FailoverApplies(e) ==
    IsModelNotFoundError(e) \/ IsTransientApiError(e)

\* variant: no model is excluded from the search for a replacement
FailoverExclude_Nothing(current) == {}

\* transcribe, line 342: the models excluded from the replacement
FailoverExclude(current) == { current }

\* variant: the failure is returned as ("", elapsed) without a log entry
FailedCall_Silent(r, model, elapsed) ==
    [r EXCEPT !.pc = "done",
              !.result = [kind |-> "pair", text |-> <<>>, elapsed |-> elapsed, exc |-> ""]]

\* transcribe, lines 357-385: log the failure and return ("", elapsed)
FailedCall(r, model, elapsed) ==
    [r EXCEPT !.pc = "done",
              !.logs = Append(@, Log("error", "api_failed", model, elapsed)),
              !.result = [kind |-> "pair", text |-> <<>>, elapsed |-> elapsed, exc |-> ""]]

\* transcribe, lines 387-397: the response becomes the result
SucceededCall(r, model, response, elapsed) ==
    LET result == CleanResult(ExtractResponseText(response)) IN
    [r EXCEPT !.pc = "done",
              !.logs = Append(@, Log("info", "result", model, elapsed)),
              !.result = [kind |-> "pair", text |-> result, elapsed |-> elapsed, exc |-> ""]]

\* variant: no replacement model, and the request is tried again on the same model
OnNoReplacement_RetrySame(r, model) ==
    [r EXCEPT !.pc = "read", !.phase = "retry", !.site = "loop", !.attempt = 0,
              !.trace = <<>>, !.sleeps = <<>>, !.executes = @ + 1]

\* transcribe, lines 366-375: _resolve_model_name returned ""
OnNoReplacement(r, model) ==
    FailedCall(r, model, r.ticks)

\* variant: the failure of the re-attempt is not caught
OnExecuteRaised_Reraise(r, model, e) ==
    IF r.phase = "first"
    THEN IF FailoverApplies(e)
         THEN [r EXCEPT !.pc = "resolve", !.e = e]
         ELSE FailedCall([r EXCEPT !.e = e], model, r.ticks)
    ELSE [r EXCEPT !.pc = "done", !.retry_error = e,
                   !.result = [kind |-> "raised", text |-> <<>>, elapsed |-> 0,
                               exc |-> "RuntimeError"]]

\* variant: the failure of the re-attempt starts another failover
OnExecuteRaised_FailoverAgain(r, model, e) ==
    IF FailoverApplies(e)
    THEN [r EXCEPT !.pc = "resolve", !.e = e]
    ELSE FailedCall([r EXCEPT !.e = e], model, r.ticks)

\* transcribe, lines 340-385: _generate_content_with_retry raised e
OnExecuteRaised(r, model, e) ==
    IF r.phase = "first"
    THEN IF FailoverApplies(e)
         THEN [r EXCEPT !.pc = "resolve", !.e = e]
         ELSE FailedCall([r EXCEPT !.e = e], model, r.ticks)
    ELSE FailedCall([r EXCEPT !.retry_error = e], model, r.ticks)

(***************************************************************************)
(* Arguments of the name-resolution methods taken on their own.            *)
(***************************************************************************)
\* no method is applied
NoProbe ==
    [op |-> "none", name |-> <<>>, env |-> <<>>, exclude |-> {},
     listing |-> [ok |-> FALSE, models |-> <<>>],
     done |-> FALSE, out |-> <<>>, again |-> <<>>, candidates |-> <<>>,
     text |-> <<>>, response |-> NoResponse,
     message |-> <<>>, mode |-> "none", attempt |-> 0, matches |-> {},
     action |-> "none",
     raw |-> [set |-> FALSE, value |-> <<>>],
     level |-> [level |-> "none", warned |-> FALSE, raised |-> FALSE]]

\* arguments of _normalize_model_name
RawModelNames ==
    { <<>>,
      <<"gemini-2.5-flash">>,
      <<"models/", "gemini-2.5-flash">>,
      <<"models/", "models/", "gemini-2.5-flash">>,
      <<" ", "models/", "gemini-2.5-flash">>,
      <<"models/", " ", "gemini-2.5-flash", "\n">>,
      <<"gemini-3.0-flash">>,
      <<"models/", "gemini-3.0-flash">>,
      <<" ", "gemini-3.0-flash">>,
      <<"gemini-3-flash-preview">> }

\* values of VOICECODE_THINKING_LEVEL: not set, or a string
RawThinkingLevels ==
    { [set |-> FALSE, value |-> <<>>] }
    \cup { [set |-> TRUE, value |-> v] :
            v \in { <<>>, <<" ">>, <<"minimal">>, <<"MINIMAL">>, <<"low">>, <<"Low">>,
                    <<"medium">>, <<" ", "Medium", "\n">>, <<"high">>, <<"HIGH">>,
                    <<"HIGH", " ">>, <<"max">>, <<"Max">>, <<"low", " ", "high">>,
                    <<"none">> } }

\* values of VOICECODE_GEMINI_MODEL
RawConfiguredModels ==
    ConfiguredModels
    \cup { <<" ">>, <<"gemini-2.0-flash">>, <<"gemini-exp">>,
           <<" ", "models/", "gemini-1.5-pro", " ">>, <<"embedding-001">> }

\* entries of client.models.list(): the listed ones, and two more that generate
RawLiveEntries ==
    LiveEntries
    \cup { [name |-> <<"models/", "gemini-2.0-flash">>,
            supported_actions |-> {"generateContent"}],
           [name |-> <<"gemini-exp">>, supported_actions |-> {"generateContent"}] }

RawListOutcomes ==
    { [ok |-> FALSE, models |-> <<>>] }
    \cup { [ok |-> TRUE, models |-> l] : l \in SeqsUpTo(RawLiveEntries, MaxLive) }

\* values of the exclude argument of _resolve_model_name (None is the empty set)
RawExcludes ==
    SUBSET { <<"gemini-3-flash-preview">>, MODEL, <<"gemini-1.5-pro">>, <<"gemini-exp">> }

\* characters of a response text: the two a tag is made of, a letter, a blank
TextChars == { "<", ">", "a", " " }

\* values of response.text and of a part's text
RawTexts == SeqsUpTo(TextChars, MaxText)

\* values of the text attribute of a response: None, "", a text
DirectTexts == { NotStr, Str(<<>>), Str(<<"t">>) }

\* candidates of a response: without content, without parts, with parts some of
\* which carry no text
RawCandidates ==
    { [hasContent |-> FALSE, parts |-> <<>>],
      [hasContent |-> TRUE, parts |-> <<>>],
      [hasContent |-> TRUE, parts |-> << [text |-> Str(<<"a">>)] >>],
      [hasContent |-> TRUE, parts |-> << [text |-> Str(<<"b", " ">>)] >>],
      [hasContent |-> TRUE,
       parts |-> << [text |-> Str(<<"c">>)], [text |-> NotStr], [text |-> Str(<<"d">>)] >>] }

\* responses of client.models.generate_content
RawResponses ==
    { [text |-> t, candidates |-> cs] :
        t \in DirectTexts, cs \in SeqsUpTo(RawCandidates, MaxCandidates) }

(***************************************************************************)
(* Actions.                                                                *)
(***************************************************************************)
Init ==
    /\ probe = NoProbe
    /\ callers = { "c1" }
    /\ api_key \in BOOLEAN
    /\ env_model \in ConfiguredModels
    /\ enable_prompt_cache \in BOOLEAN
    /\ lifecycle = "new"
    /\ model_name = <<>>
    /\ thinking_mode = "level"
    /\ prompt_cache_name_by_model = EmptyCache
    /\ init = [client |-> FALSE, listCalls |-> 0, createCalls |-> 0, raised |-> "",
               logs |-> <<>>, createFailed |-> FALSE]
    /\ call = [c \in Callers |-> IdleCall]

\* variant: the client is created and the models are listed before the key is looked at
Construct_KeyCheckedLast ==
    /\ lifecycle = "new"
    /\ \E listing \in ListOutcomes :
        LET resolved == ResolveModelName(env_model, {}, listing) IN
        /\ thinking_mode' = "level"
        /\ model_name' = resolved
        /\ prompt_cache_name_by_model' = prompt_cache_name_by_model
        /\ init' = [client |-> TRUE, listCalls |-> 1, createCalls |-> 0,
                    raised |-> IF api_key THEN "" ELSE "ValueError", logs |-> <<>>,
                    createFailed |-> FALSE]
        /\ lifecycle' = IF api_key THEN "ready" ELSE "failed"
    /\ UNCHANGED << env, call >>

\* Transcriber.__init__
Construct ==
    /\ lifecycle = "new"
    /\ IF ~api_key
       THEN /\ lifecycle' = "failed"
            /\ init' = [init EXCEPT !.raised = "ValueError"]
            /\ UNCHANGED << model_name, thinking_mode, prompt_cache_name_by_model >>
       ELSE \E listing \in ListOutcomes, created \in CreateOutcomes :
            LET resolved == ResolveModelName(env_model, {}, listing) IN
            /\ thinking_mode' = "level"
            /\ model_name' = resolved
            /\ prompt_cache_name_by_model' =
                   EnsurePromptCache(enable_prompt_cache, EmptyCache, resolved, created)
            /\ init' = [client |-> TRUE, listCalls |-> 1,
                        createCalls |->
                            IF EnsureCallsCreate(enable_prompt_cache, EmptyCache, resolved)
                            THEN 1 ELSE 0,
                        raised |-> "",
                        logs |->
                            IF EnsureCallsCreate(enable_prompt_cache, EmptyCache, resolved)
                                   /\ created = "error"
                            THEN <<Log("warning", "cache_unavailable", <<>>, 0)>>
                            ELSE <<>>,
                        createFailed |->
                            EnsureCallsCreate(enable_prompt_cache, EmptyCache, resolved)
                                /\ created = "error"]
            /\ lifecycle' = "ready"
    /\ UNCHANGED << env, call >>

\* variant: a missing file is sent to the provider as an empty recording
Transcribe_MissingFileIsSent(c) ==
    /\ c \in callers
    /\ lifecycle = "ready"
    /\ call[c].pc \in { "idle", "done" }
    /\ \E exists \in BOOLEAN, audio \in { "empty", "data" } :
         call' = [call EXCEPT ![c] =
                  [IdleCall EXCEPT !.pc = "read", !.phase = "first",
                                   !.audio = IF exists THEN audio ELSE "none",
                                   !.executes = 1, !.start = Snapshot]]
    /\ UNCHANGED << env, lifecycle, model_name, thinking_mode,
                    prompt_cache_name_by_model, init >>

\* variant: a call that follows a failed re-attempt starts on the model the failed
\* call had started with
Transcribe_RollsBack(c) ==
    /\ c \in callers
    /\ lifecycle = "ready"
    /\ call[c].pc \in { "idle", "done" }
    /\ model_name' = IF call[c].pc = "done" /\ call[c].retry_error # <<>>
                     THEN call[c].start.model_name ELSE model_name
    /\ \E exists \in BOOLEAN, audio \in { "empty", "data" } :
         IF ~exists
         THEN call' = [call EXCEPT ![c] =
                  [IdleCall EXCEPT !.pc = "done", !.start = Snapshot,
                      !.result = [kind |-> "raised", text |-> <<>>, elapsed |-> 0,
                                  exc |-> "FileNotFoundError"]]]
         ELSE call' = [call EXCEPT ![c] =
                  [IdleCall EXCEPT !.pc = "read", !.phase = "first", !.audio = audio,
                                   !.executes = 1, !.start = Snapshot]]
    /\ UNCHANGED << env, lifecycle, thinking_mode, prompt_cache_name_by_model, init >>

\* transcribe, lines 330-339: the precondition, the read of the file, the start time
Transcribe(c) ==
    /\ c \in callers
    /\ lifecycle = "ready"
    /\ call[c].pc \in { "idle", "done" }
    /\ \E exists \in BOOLEAN, audio \in { "empty", "data" } :
         IF ~exists
         THEN call' = [call EXCEPT ![c] =
                  [IdleCall EXCEPT !.pc = "done", !.start = Snapshot,
                      !.result = [kind |-> "raised", text |-> <<>>, elapsed |-> 0,
                                  exc |-> "FileNotFoundError"]]]
         ELSE call' = [call EXCEPT ![c] =
                  [IdleCall EXCEPT !.pc = "read", !.phase = "first", !.audio = audio,
                                   !.executes = 1, !.start = Snapshot]]
    /\ UNCHANGED << env, lifecycle, model_name, thinking_mode,
                    prompt_cache_name_by_model, init >>

\* _generate_content, line 300: the model the request targets
GenerateContent(c) ==
    /\ call[c].pc = "read"
    /\ call' = [call EXCEPT ![c] = [@ EXCEPT !.pc = "build", !.reqModel = model_name]]
    /\ UNCHANGED << env, lifecycle, model_name, thinking_mode,
                    prompt_cache_name_by_model, init >>

\* variant: the cache name is looked up for the model the request targets
BuildConfig_ForTarget(c) ==
    /\ call[c].pc = "build"
    /\ call' = [call EXCEPT ![c] =
           [@ EXCEPT !.pc = "call",
                     !.reqCfg = BuildGenerateConfig(thinking_mode,
                                    prompt_cache_name_by_model, call[c].reqModel)]]
    /\ UNCHANGED << env, lifecycle, model_name, thinking_mode,
                    prompt_cache_name_by_model, init >>

\* _client_generate_content, line 295: the config of the request
BuildConfig(c) ==
    /\ call[c].pc = "build"
    /\ call' = [call EXCEPT ![c] =
           [@ EXCEPT !.pc = "call",
                     !.reqCfg = BuildGenerateConfig(thinking_mode,
                                    prompt_cache_name_by_model, model_name)]]
    /\ UNCHANGED << env, lifecycle, model_name, thinking_mode,
                    prompt_cache_name_by_model, init >>

\* the frame after the provider answered the request of frame r with outcome o;
\* generate_content is given model, contents and config, and no timeout
Answered(r, o) ==
    [r EXCEPT !.genCalls = @ + 1, !.ticks = @ + 1,
              !.trace = Append(@, [model |-> r.reqModel, cfg |-> r.reqCfg,
                                   timeouts |-> {}, site |-> r.site, outcome |-> o])]

\* client.models.generate_content answers, and what _generate_content_with_retry
\* (lines 305-326) and transcribe do with the answer
ClientGenerateContent(c) ==
    /\ call[c].pc = "call"
    /\ \E o \in GenerateOutcomes :
        LET r == Answered(call[c], o) IN
        IF o.ok
        THEN /\ call' = [call EXCEPT ![c] = SucceededCall(r, model_name, o.response, r.ticks)]
             /\ UNCHANGED thinking_mode
        ELSE IF r.site = "downgrade"
        THEN /\ call' = [call EXCEPT ![c] = OnExecuteRaised(r, model_name, o.error)]
             /\ UNCHANGED thinking_mode
        ELSE IF DowngradeApplies(thinking_mode, o.error)
        THEN /\ thinking_mode' = "budget0"
             /\ call' = [call EXCEPT ![c] =
                    [r EXCEPT !.pc = "read", !.site = "downgrade",
                              !.logs = Append(@, Log("warning", "downgrade", model_name, 0))]]
        ELSE IF MustRaise(o.error, r.attempt)
        THEN /\ call' = [call EXCEPT ![c] = OnExecuteRaised(r, model_name, o.error)]
             /\ UNCHANGED thinking_mode
        ELSE /\ call' = [call EXCEPT ![c] =
                    [r EXCEPT !.pc = "sleep",
                              !.logs = Append(@, Log("warning", "retry", model_name, 0))]]
             /\ UNCHANGED thinking_mode
    /\ UNCHANGED << env, lifecycle, model_name, prompt_cache_name_by_model, init >>

\* _generate_content_with_retry, lines 319-323 and the next iteration of the loop
Sleep(c) ==
    /\ call[c].pc = "sleep"
    /\ call' = [call EXCEPT ![c] =
           [@ EXCEPT !.pc = "read", !.ticks = @ + 1,
                     !.sleeps = Append(@, WaitTenths(call[c].attempt)),
                     !.attempt = @ + 1]]
    /\ UNCHANGED << env, lifecycle, model_name, thinking_mode,
                    prompt_cache_name_by_model, init >>

\* transcribe, lines 342-351 and 366-375: look for a replacement model
ResolveFallback(c) ==
    /\ call[c].pc = "resolve"
    /\ \E listing \in ListOutcomes :
        LET fallback_model ==
                ResolveModelName(env_model, FailoverExclude(model_name), listing)
            r == [call[c] EXCEPT !.listCalls = @ + 1, !.ticks = @ + 1]
        IN  IF fallback_model # <<>>
            THEN call' = [call EXCEPT ![c] =
                     [r EXCEPT !.pc = "switch", !.fallback_model = fallback_model,
                               !.logs = Append(@, Log("warning", "switch", model_name, 0))]]
            ELSE call' = [call EXCEPT ![c] = OnNoReplacement(r, model_name)]
    /\ UNCHANGED << env, lifecycle, model_name, thinking_mode,
                    prompt_cache_name_by_model, init >>

\* transcribe, line 353
SwitchModel(c) ==
    /\ call[c].pc = "switch"
    /\ model_name' = call[c].fallback_model
    /\ call' = [call EXCEPT ![c] = [@ EXCEPT !.pc = "ensure", !.switches = @ + 1]]
    /\ UNCHANGED << env, lifecycle, thinking_mode, prompt_cache_name_by_model, init >>

\* transcribe, lines 354-355: _ensure_prompt_cache, then the second
\* _generate_content_with_retry begins
EnsureCache(c) ==
    /\ call[c].pc = "ensure"
    /\ \E created \in CreateOutcomes :
        LET calls == EnsureCallsCreate(enable_prompt_cache, prompt_cache_name_by_model,
                                       model_name)
        IN  /\ prompt_cache_name_by_model' =
                   EnsurePromptCache(enable_prompt_cache, prompt_cache_name_by_model,
                                     model_name, created)
            /\ call' = [call EXCEPT ![c] =
                   [@ EXCEPT !.pc = "read", !.phase = "retry", !.site = "loop",
                             !.attempt = 0, !.trace = <<>>, !.sleeps = <<>>,
                             !.executes = @ + 1,
                             !.ensured = Append(@, model_name),
                             !.createFailed = calls /\ created = "error",
                             !.createCalls = @ + (IF calls THEN 1 ELSE 0),
                             !.ticks = @ + (IF calls THEN 1 ELSE 0),
                             !.logs = IF calls /\ created = "error"
                                      THEN Append(@, Log("warning", "cache_unavailable",
                                                         <<>>, 0))
                                      ELSE @]]
    /\ UNCHANGED << env, lifecycle, model_name, thinking_mode, init >>

Next ==
    \/ Construct
    \/ \E c \in Callers :
        \/ Transcribe(c)
        \/ GenerateContent(c)
        \/ BuildConfig(c)
        \/ ClientGenerateContent(c)
        \/ Sleep(c)
        \/ ResolveFallback(c)
        \/ SwitchModel(c)
        \/ EnsureCache(c)

Spec == Init /\ [][Next]_vars

(***************************************************************************)
(* The name-resolution methods applied to arguments of their own: no       *)
(* session is constructed, the arguments are drawn at the start.           *)
(***************************************************************************)
InitResolution ==
    /\ callers = {}
    /\ api_key = FALSE
    /\ env_model = <<>>
    /\ enable_prompt_cache = FALSE
    /\ lifecycle = "new"
    /\ model_name = <<>>
    /\ thinking_mode = "level"
    /\ prompt_cache_name_by_model = EmptyCache
    /\ init = [client |-> FALSE, listCalls |-> 0, createCalls |-> 0, raised |-> "",
               logs |-> <<>>, createFailed |-> FALSE]
    /\ call = [c \in Callers |-> IdleCall]
    /\ \/ \E name \in RawModelNames :
             probe = [NoProbe EXCEPT !.op = "normalize", !.name = name]
       \/ \E e \in RawConfiguredModels, x \in RawExcludes, l \in RawListOutcomes :
             probe = [NoProbe EXCEPT !.op = "resolve", !.env = e, !.exclude = x,
                                     !.listing = l]
       \/ \E raw \in RawThinkingLevels :
             probe = [NoProbe EXCEPT !.op = "thinking_level", !.raw = raw]

\* _normalize_model_name(name), and _normalize_model_name of what it returned
ApplyNormalize ==
    /\ probe.op = "normalize"
    /\ ~probe.done
    /\ probe' = [probe EXCEPT !.done = TRUE,
                              !.out = NormalizeModelName(probe.name),
                              !.again = NormalizeModelName(NormalizeModelName(probe.name))]
    /\ UNCHANGED << callers, api_key, env_model, enable_prompt_cache, lifecycle,
                    model_name, thinking_mode, prompt_cache_name_by_model, init, call >>

\* _resolve_model_name(exclude), with the candidates it builds at line 180
ApplyResolve ==
    /\ probe.op = "resolve"
    /\ ~probe.done
    /\ probe' = [probe EXCEPT !.done = TRUE,
                              !.candidates = BuildModelCandidates(probe.env),
                              !.out = ResolveModelName(probe.env, probe.exclude,
                                                       probe.listing)]
    /\ UNCHANGED << callers, api_key, env_model, enable_prompt_cache, lifecycle,
                    model_name, thinking_mode, prompt_cache_name_by_model, init, call >>

\* _resolve_thinking_level(), as __init__ calls it at line 76
ApplyResolveThinkingLevel ==
    /\ probe.op = "thinking_level"
    /\ ~probe.done
    /\ probe' = [probe EXCEPT !.done = TRUE, !.level = ResolveThinkingLevel(probe.raw)]
    /\ UNCHANGED << callers, api_key, env_model, enable_prompt_cache, lifecycle,
                    model_name, thinking_mode, prompt_cache_name_by_model, init, call >>

NextResolution == ApplyNormalize \/ ApplyResolve \/ ApplyResolveThinkingLevel

SpecResolution == InitResolution /\ [][NextResolution]_vars

(***************************************************************************)
(* The text of a response: _extract_response_text and the cleaning of      *)
(* transcribe, applied to responses and texts drawn at the start.          *)
(***************************************************************************)
InitText ==
    /\ callers = {}
    /\ api_key = FALSE
    /\ env_model = <<>>
    /\ enable_prompt_cache = FALSE
    /\ lifecycle = "new"
    /\ model_name = <<>>
    /\ thinking_mode = "level"
    /\ prompt_cache_name_by_model = EmptyCache
    /\ init = [client |-> FALSE, listCalls |-> 0, createCalls |-> 0, raised |-> "",
               logs |-> <<>>, createFailed |-> FALSE]
    /\ call = [c \in Callers |-> IdleCall]
    /\ \/ \E t \in RawTexts : probe = [NoProbe EXCEPT !.op = "clean", !.text = t]
       \/ \E r \in RawResponses : probe = [NoProbe EXCEPT !.op = "extract", !.response = r]

\* transcribe, line 389, on a text, and on what it returned
ApplyClean ==
    /\ probe.op = "clean"
    /\ ~probe.done
    /\ probe' = [probe EXCEPT !.done = TRUE,
                              !.out = CleanResult(probe.text),
                              !.again = CleanResult(CleanResult(probe.text))]
    /\ UNCHANGED << callers, api_key, env_model, enable_prompt_cache, lifecycle,
                    model_name, thinking_mode, prompt_cache_name_by_model, init, call >>

\* _extract_response_text(response)
ApplyExtract ==
    /\ probe.op = "extract"
    /\ ~probe.done
    /\ probe' = [probe EXCEPT !.done = TRUE,
                              !.out = ExtractResponseText(probe.response)]
    /\ UNCHANGED << callers, api_key, env_model, enable_prompt_cache, lifecycle,
                    model_name, thinking_mode, prompt_cache_name_by_model, init, call >>

NextText == ApplyClean \/ ApplyExtract

SpecText == InitText /\ [][NextText]_vars

(***************************************************************************)
(* The classifiers of failures and the except block of                     *)
(* _generate_content_with_retry, applied to messages drawn at the start.   *)
(***************************************************************************)
InitFaults ==
    /\ callers = {}
    /\ api_key = FALSE
    /\ env_model = <<>>
    /\ enable_prompt_cache = FALSE
    /\ lifecycle = "new"
    /\ model_name = <<>>
    /\ thinking_mode = "level"
    /\ prompt_cache_name_by_model = EmptyCache
    /\ init = [client |-> FALSE, listCalls |-> 0, createCalls |-> 0, raised |-> "",
               logs |-> <<>>, createFailed |-> FALSE]
    /\ call = [c \in Callers |-> IdleCall]
    /\ \/ \E m \in RawMessages :
             probe = [NoProbe EXCEPT !.op = "classify", !.message = m]
       \/ \E m \in RawMessages, mode \in { "level", "budget0" },
              attempt \in 0..MAX_TRANSIENT_RETRIES :
             probe = [NoProbe EXCEPT !.op = "handle", !.message = m, !.mode = mode,
                                     !.attempt = attempt]

\* the four classifiers applied to one failure
ApplyClassify ==
    /\ probe.op = "classify"
    /\ ~probe.done
    /\ probe' = [probe EXCEPT
           !.done = TRUE,
           !.matches =
               (IF IsModelNotFoundError(probe.message) THEN { "model_not_found" } ELSE {})
               \cup (IF IsTransientApiError(probe.message) THEN { "transient" } ELSE {})
               \cup (IF IsThinkingLevelUnsupportedError(probe.message)
                     THEN { "thinking_unsupported" } ELSE {})
               \cup (IF IsCachedContentError(probe.message)
                     THEN { "cached_content" } ELSE {})]
    /\ UNCHANGED << callers, api_key, env_model, enable_prompt_cache, lifecycle,
                    model_name, thinking_mode, prompt_cache_name_by_model, init, call >>

\* the except block of _generate_content_with_retry on one failure
ApplyHandle ==
    /\ probe.op = "handle"
    /\ ~probe.done
    /\ probe' = [probe EXCEPT
           !.done = TRUE,
           !.action = Handling(probe.mode, probe.message, probe.attempt)]
    /\ UNCHANGED << callers, api_key, env_model, enable_prompt_cache, lifecycle,
                    model_name, thinking_mode, prompt_cache_name_by_model, init, call >>

NextFaults == ApplyClassify \/ ApplyHandle

SpecFaults == InitFaults /\ [][NextFaults]_vars

(***************************************************************************)
(* Vocabulary of the properties.                                           *)
(***************************************************************************)
Last(s) == s[Len(s)]

Failed(t) == ~t.outcome.ok

\* the fault kinds of the specification, with ThinkingUnsupported and CacheInvalid first
IsTransientKind(e) ==
    /\ IsTransientApiError(e)
    /\ ~IsThinkingLevelUnsupportedError(e)
    /\ ~IsCachedContentError(e)

IsFatalKind(e) ==
    /\ ~IsModelNotFoundError(e)
    /\ ~IsTransientApiError(e)
    /\ ~IsThinkingLevelUnsupportedError(e)
    /\ ~IsCachedContentError(e)

\* every call of the current _generate_content_with_retry failed with a Transient fault
AllTransient(t) == \A i \in 1..Len(t) : Failed(t[i]) /\ IsTransientKind(t[i].outcome.error)

\* the current _generate_content_with_retry is still running
Executing(r) == r.pc \in { "read", "build", "call", "sleep" }

\* the current _generate_content_with_retry raised
ExecuteRaised(r) ==
    /\ r.pc \in { "resolve", "switch", "ensure", "done" }
    /\ r.trace # <<>>
    /\ Failed(Last(r.trace))

\* the positions of a transcribe call at which one of its actions is enabled
StepPcs == { "read", "build", "call", "sleep", "resolve", "switch", "ensure" }

EmptyPair(r) ==
    r.result.kind = "pair" /\ r.result.text = <<>> /\ r.result.exc = ""

(***************************************************************************)
(* The session under the assumption that every call to the provider        *)
(* returns and every sleep ends: a thread inside transcribe goes on to its *)
(* next step.  The key is set and the cache enabled; a thread calls        *)
(* transcribe once, and nothing obliges it to.                             *)
(***************************************************************************)

\* the one thread that calls transcribe
LiveCallers == { "c1" }

InitLive ==
    /\ probe = NoProbe
    /\ callers = LiveCallers
    /\ api_key = TRUE
    /\ env_model \in ConfiguredModels
    /\ enable_prompt_cache = TRUE
    /\ lifecycle = "new"
    /\ model_name = <<>>
    /\ thinking_mode = "level"
    /\ prompt_cache_name_by_model = EmptyCache
    /\ init = [client |-> FALSE, listCalls |-> 0, createCalls |-> 0, raised |-> "",
               logs |-> <<>>, createFailed |-> FALSE]
    /\ call = [c \in Callers |-> IdleCall]

\* the steps of a running transcribe call of caller c
Step(c) ==
    \/ GenerateContent(c)
    \/ BuildConfig(c)
    \/ ClientGenerateContent(c)
    \/ Sleep(c)
    \/ ResolveFallback(c)
    \/ SwitchModel(c)
    \/ EnsureCache(c)

NextLive ==
    \/ Construct
    \/ \E c \in Callers :
        \/ call[c].pc = "idle" /\ Transcribe(c)
        \/ Step(c)

SpecLive == InitLive /\ [][NextLive]_vars /\ \A c \in LiveCallers : WF_vars(Step(c))

(***************************************************************************)
(* Two threads call transcribe on one Transcriber: the steps of the two    *)
(* calls interleave at every read of the session's fields.  Each thread    *)
(* makes one call on a recording, and the provider answers generate with   *)
(* one response, a missing model or a deadline.                            *)
(***************************************************************************)

InitConcurrent ==
    /\ probe = NoProbe
    /\ callers = Callers
    /\ api_key = TRUE
    /\ env_model = <<>>
    /\ enable_prompt_cache = TRUE
    /\ lifecycle = "new"
    /\ model_name = <<>>
    /\ thinking_mode = "level"
    /\ prompt_cache_name_by_model = EmptyCache
    /\ init = [client |-> FALSE, listCalls |-> 0, createCalls |-> 0, raised |-> "",
               logs |-> <<>>, createFailed |-> FALSE]
    /\ call = [c \in Callers |-> IdleCall]

ConcurrentOutcomes ==
    { [ok |-> TRUE, response |-> RespTagged, error |-> <<>>],
      [ok |-> FALSE, response |-> NoResponse, error |-> MsgModelNotFound],
      [ok |-> FALSE, response |-> NoResponse, error |-> MsgDeadline] }

ConcurrentModels == { <<"gemini-3-flash-preview">>, MODEL }

\* the provider lists ConcurrentModels or fails to list, creates the caches it is
\* asked for, and answers generate from ConcurrentOutcomes; the recordings exist
Narrow ==
    /\ lifecycle = "ready" =>
           /\ model_name \in ConcurrentModels
           /\ prompt_cache_name_by_model[model_name] # <<>>
              \/ \E c \in Callers : call[c].pc = "ensure"
    /\ \A c \in Callers :
           /\ call[c].pc # "idle" => call[c].audio = "data"
           /\ call[c].fallback_model \in ConcurrentModels \cup { <<>> }
           /\ \A i \in 1..Len(call[c].trace) :
                  call[c].trace[i].outcome \in ConcurrentOutcomes

NextConcurrent ==
    \/ Construct /\ Narrow'
    \/ \E c \in Callers :
        \/ call[c].pc = "idle" /\ Transcribe(c) /\ Narrow'
        \/ GenerateContent(c)
        \/ BuildConfig(c)
        \/ ClientGenerateContent(c) /\ Narrow'
        \/ Sleep(c)
        \/ ResolveFallback(c) /\ Narrow'
        \/ SwitchModel(c)
        \/ EnsureCache(c) /\ Narrow'

SpecConcurrent == InitConcurrent /\ [][NextConcurrent]_vars

(***************************************************************************)
(* Properties.                                                             *)
(***************************************************************************)

\* C1: whatever the provider answers to generate, list-models and cache-create,
\* a transcribe call on an existing file (0 bytes included) never ends with an
\* exception: while it runs it is at a step of the call that some answer of the
\* provider completes, and when it ends its result is a (text, elapsed) pair with
\* elapsed >= 0.
C1_TranscribeNeverRaisesProviderFailure ==
    \A c \in callers :
        LET r == call[c] IN
        /\ (r.audio # "none" /\ r.pc = "done") =>
               /\ r.result.kind = "pair"
               /\ r.result.exc = ""
               /\ r.result.elapsed >= 0
        /\ (r.audio # "none" /\ r.pc # "done") =>
               /\ r.result.kind = "none"
               /\ r.pc \in StepPcs

\* C1 witness: a call on a 0-byte file ended after the first request failed, the
\* cache of the replacement model could not be created and the re-attempt failed.
C1_Witness ==
    \E c \in callers :
        /\ call[c].pc = "done"
        /\ call[c].audio = "empty"
        /\ call[c].retry_error # <<>>
        /\ \E i \in 1..Len(call[c].logs) : call[c].logs[i].what = "cache_unavailable"
        /\ EmptyPair(call[c])

\* C2: a ModelNotFound or Transient failure of the first execute with a replacement R
\* found: the call does not end there, model_name becomes R, then _ensure_prompt_cache
\* is called with R, then a second execute runs with every request on R; when that
\* execute succeeds the result is the cleaned text of its response and model_name is R.
C2_FailoverSwitchesEnsuresRetries ==
    \A c \in callers :
        LET r == call[c]
            R == r.fallback_model
        IN
        /\ (r.pc = "done" /\ r.phase = "first" /\ r.e # <<>>
              /\ (IsModelNotFoundError(r.e) \/ IsTransientApiError(r.e))) =>
               (r.listCalls = 1 /\ R = <<>>)
        /\ R # <<>> =>
               /\ IsModelNotFoundError(r.e) \/ IsTransientApiError(r.e)
               /\ r.pc \in { "switch", "ensure" } \/ r.phase = "retry"
               /\ r.pc = "switch" => (r.switches = 0 /\ r.ensured = <<>> /\ r.executes = 1)
               /\ r.pc = "ensure" =>
                      (model_name = R /\ r.switches = 1 /\ r.ensured = <<>> /\ r.executes = 1)
               /\ r.phase = "retry" =>
                      /\ model_name = R
                      /\ r.switches = 1
                      /\ r.ensured = <<R>>
                      /\ r.executes = 2
                      /\ \A i \in 1..Len(r.trace) : r.trace[i].model = R
                      /\ (r.trace # <<>> /\ ~Failed(Last(r.trace))) =>
                             /\ r.pc = "done"
                             /\ r.result.kind = "pair"
                             /\ r.result.text =
                                    CleanResult(ExtractResponseText(Last(r.trace).outcome.response))

\* C2 witness: a Transient failure, a replacement, and a successful re-attempt whose
\* text is returned.
C2_Witness ==
    \E c \in callers :
        /\ call[c].pc = "done"
        /\ call[c].phase = "retry"
        /\ IsTransientApiError(call[c].e)
        /\ ~Failed(Last(call[c].trace))
        /\ call[c].result.text # <<>>
        /\ model_name = call[c].fallback_model
        /\ model_name # call[c].start.model_name

\* C3: in one transcribe call model_name is switched at most once, execute runs at
\* most twice, list-models is called at most once, and a failure of the re-attempt,
\* whatever its kind, ends the call with ("", elapsed).
C3_FailoverBounded ==
    \A c \in callers :
        LET r == call[c] IN
        /\ r.switches <= 1
        /\ r.executes <= 2
        /\ r.listCalls <= 1
        /\ r.retry_error # <<>> =>
               (r.pc = "done" /\ EmptyPair(r) /\ r.switches = 1 /\ r.executes = 2)
        /\ (r.phase = "retry" /\ ExecuteRaised(r)) =>
               (r.pc = "done" /\ r.retry_error = Last(r.trace).outcome.error)

\* C3 witness: the re-attempt itself failed with a ModelNotFound failure and the
\* call ended.
C3_Witness ==
    \E c \in callers :
        /\ call[c].pc = "done"
        /\ call[c].switches = 1
        /\ IsModelNotFoundError(call[c].retry_error)

\* C4: when the replacement lookup of a failover returns "", the call ends at once
\* with ("", elapsed): no generate call after the failing one, no cache-create call,
\* no second execute, and model_name is the one the call started with.
C4_NoReplacementReturnsEmpty ==
    \A c \in callers :
        LET r == call[c] IN
        (r.listCalls = 1 /\ r.fallback_model = <<>>) =>
            /\ IsModelNotFoundError(r.e) \/ IsTransientApiError(r.e)
            /\ r.pc = "done"
            /\ EmptyPair(r)
            /\ r.genCalls = Len(r.trace)
            /\ Last(r.trace).outcome.error = r.e
            /\ r.executes = 1
            /\ r.switches = 0
            /\ r.createCalls = 0
            /\ model_name = r.start.model_name

\* C4 witness: a ModelNotFound failure for which no replacement was found.
C4_Witness ==
    \E c \in callers :
        /\ call[c].listCalls = 1
        /\ call[c].fallback_model = <<>>
        /\ IsModelNotFoundError(call[c].e)
        /\ call[c].pc = "done"

\* C5: a Fatal failure of a generate call is the last provider call of its transcribe
\* call, which ends with ("", elapsed); in the first execute no list-models and no
\* cache-create call was made and model_name and the cache dict are as at the start,
\* and when the failing call was the only one the thinking mode is unchanged too.
C5_FatalNotRetriedNotFailedOver ==
    \A c \in callers :
        LET r == call[c] IN
        \A i \in 1..Len(r.trace) :
            (Failed(r.trace[i]) /\ IsFatalKind(r.trace[i].outcome.error)) =>
                /\ i = Len(r.trace)
                /\ r.pc = "done"
                /\ EmptyPair(r)
                /\ r.phase = "first" =>
                       /\ r.listCalls = 0
                       /\ r.createCalls = 0
                       /\ r.switches = 0
                       /\ r.genCalls = Len(r.trace)
                       /\ model_name = r.start.model_name
                       /\ prompt_cache_name_by_model = r.start.cache
                /\ r.genCalls = 1 => Snapshot = r.start

\* C5 witness: the only generate call of a transcribe call failed with a quota error.
C5_Witness ==
    \E c \in callers :
        /\ call[c].pc = "done"
        /\ call[c].genCalls = 1
        /\ Len(call[c].trace) = 1
        /\ call[c].trace[1].outcome.error = MsgQuota
        /\ EmptyPair(call[c])

\* C6: a CacheInvalid failure of a request for model M leaves no entry for M in the
\* cache dict, so that the next request for M carries the inline instruction.
C6_CacheInvalidRemovesEntry ==
    \A c \in callers :
        LET r == call[c] IN
        \A i \in 1..Len(r.trace) :
            (Failed(r.trace[i]) /\ IsCachedContentError(r.trace[i].outcome.error)) =>
                /\ prompt_cache_name_by_model[r.trace[i].model] = <<>>
                /\ BuildGenerateConfig(thinking_mode, prompt_cache_name_by_model,
                                       r.trace[i].model).system_instruction

\* C7: when the first answer of an execute is a CacheInvalid failure, the execute does
\* not end there: a second request goes to the same model with the inline instruction.
C7_CacheInvalidReattempted ==
    \A c \in callers :
        LET r == call[c] IN
        (/\ r.trace # <<>>
         /\ Failed(r.trace[1])
         /\ IsCachedContentError(r.trace[1].outcome.error)
         /\ ~Executing(r)) =>
            /\ Len(r.trace) >= 2
            /\ r.trace[2].model = r.trace[1].model
            /\ r.trace[2].cfg.system_instruction

\* the requests of the current execute sent from the retry loop (line 307) and from
\* the mode downgrade (line 314)
LoopCalls(r) == Cardinality({ i \in 1..Len(r.trace) : r.trace[i].site = "loop" })
DowngradeCalls(r) == Cardinality({ i \in 1..Len(r.trace) : r.trace[i].site = "downgrade" })

\* C8 as stated: one execute makes at most MAX_TRANSIENT_RETRIES + 1 generate calls.
C8_AtMostRetriesPlusOne ==
    \A c \in callers : Len(call[c].trace) <= MAX_TRANSIENT_RETRIES + 1

\* C8 amended: one execute makes at most MAX_TRANSIENT_RETRIES + 1 generate calls from
\* its retry loop and at most one more for the thinking-mode downgrade, hence at most
\* MAX_TRANSIENT_RETRIES + 2, and more than MAX_TRANSIENT_RETRIES + 1 only with a
\* downgrade call.
C8_AtMostRetriesPlusTwo ==
    \A c \in callers :
        LET r == call[c] IN
        /\ LoopCalls(r) <= MAX_TRANSIENT_RETRIES + 1
        /\ DowngradeCalls(r) <= 1
        /\ Len(r.trace) <= MAX_TRANSIENT_RETRIES + 2
        /\ r.attempt <= MAX_TRANSIENT_RETRIES

\* C8 witness: an execute that made MAX_TRANSIENT_RETRIES + 2 generate calls.
C8_Witness ==
    \E c \in callers :
        /\ Len(call[c].trace) = MAX_TRANSIENT_RETRIES + 2
        /\ DowngradeCalls(call[c]) = 1

\* C9: after k Transient failures, 1 <= k <= MAX_TRANSIENT_RETRIES, the execute goes
\* on; when the next answer is a success the execute made exactly k + 1 calls, all to
\* the same model, slept k times, and the call ends with the text of that response.
C9_TransientThenSuccess ==
    \A c \in callers :
        LET r == call[c]
            t == r.trace
        IN
        /\ (Len(t) \in 1..MAX_TRANSIENT_RETRIES /\ AllTransient(t)) => Executing(r)
        /\ (Len(t) >= 2 /\ ~Failed(Last(t)) /\ AllTransient(SubSeq(t, 1, Len(t) - 1))) =>
               /\ Len(t) <= MAX_TRANSIENT_RETRIES + 1
               /\ \A i \in 1..Len(t) : t[i].model = t[1].model
               /\ Len(r.sleeps) = Len(t) - 1
               /\ r.pc = "done"
               /\ r.result.kind = "pair"
               /\ r.result.text = CleanResult(ExtractResponseText(Last(t).outcome.response))

\* C9 witness: one Transient failure, then a success that is returned.
C9_Witness ==
    \E c \in callers :
        /\ Len(call[c].trace) = 2
        /\ AllTransient(SubSeq(call[c].trace, 1, 1))
        /\ ~Failed(call[c].trace[2])
        /\ call[c].pc = "done"
        /\ call[c].result.text # <<>>

\* the failure the current execute raised to transcribe
RaisedError(r) == IF r.phase = "first" THEN r.e ELSE r.retry_error

\* C10: while every answer is a Transient failure the execute goes on up to
\* MAX_TRANSIENT_RETRIES + 1 calls, and then raises the last failure: no further
\* call, no response returned.
C10_TransientExhaustedRaises ==
    \A c \in callers :
        LET r == call[c]
            t == r.trace
        IN
        (t # <<>> /\ AllTransient(t)) =>
            IF Len(t) <= MAX_TRANSIENT_RETRIES
            THEN Executing(r)
            ELSE /\ Len(t) = MAX_TRANSIENT_RETRIES + 1
                 /\ ExecuteRaised(r)
                 /\ RaisedError(r) = Last(t).outcome.error
                 /\ r.pc = "done" => EmptyPair(r)

\* C10 witness: MAX_TRANSIENT_RETRIES + 1 Transient failures, raised to transcribe.
C10_Witness ==
    \E c \in callers :
        /\ Len(call[c].trace) = MAX_TRANSIENT_RETRIES + 1
        /\ AllTransient(call[c].trace)
        /\ call[c].pc = "resolve"
        /\ call[c].e = MsgDeadline

\* the call at position i of the current execute failed with a fault the provider
\* reports as "thinking level unsupported", under a config that carried the level
ThinkingRefused(t, i) ==
    /\ Failed(t[i])
    /\ IsThinkingLevelUnsupportedError(t[i].outcome.error)
    /\ t[i].site = "loop"
    /\ t[i].cfg.thinking = "level"

\* C11: when a call fails with ThinkingUnsupported while the mode is Level, the
\* mode becomes BudgetZero and the execute makes exactly one more call, with no
\* back-off sleep before it; that call's outcome is the execute's outcome: a
\* response is returned, and a failure of any kind (a Transient one with retry
\* budget left included) is raised with no further call in this execute.
C11_DowngradeOneMoreCall ==
    \A c \in callers :
        LET r == call[c]
            t == r.trace
        IN
        \A i \in 1..Len(t) :
            ThinkingRefused(t, i) =>
                /\ thinking_mode = "budget0"
                /\ Len(r.sleeps) = i - 1
                /\ IF Len(t) = i
                   THEN /\ r.pc \in { "read", "build", "call" }
                        /\ r.site = "downgrade"
                   ELSE /\ Len(t) = i + 1
                        /\ t[i + 1].site = "downgrade"
                        /\ t[i + 1].cfg.thinking = "budget0"
                        /\ t[i + 1].model = t[i].model
                        /\ ~Executing(r)
                        /\ IF Failed(t[i + 1])
                           THEN /\ ExecuteRaised(r)
                                /\ RaisedError(r) = t[i + 1].outcome.error
                           ELSE /\ r.pc = "done"
                                /\ r.result.kind = "pair"
                                /\ r.result.text =
                                       CleanResult(ExtractResponseText(
                                           t[i + 1].outcome.response))

\* C11 witness: the call after the downgrade fails with a Transient fault while
\* no retry was used yet, and the failure is raised to transcribe at once.
C11_Witness ==
    \E c \in callers :
        /\ Len(call[c].trace) = 2
        /\ ThinkingRefused(call[c].trace, 1)
        /\ call[c].trace[2].outcome.error = MsgDeadline
        /\ call[c].attempt = 0
        /\ call[c].sleeps = <<>>
        /\ call[c].pc = "resolve"
        /\ call[c].e = MsgDeadline

\* a step in which caller c builds the config of a request
BuildsConfig(c) == call[c].pc = "build" /\ call'[c].pc = "call"

\* the steps of C12: the mode never leaves BudgetZero, and a config built in
\* BudgetZero carries a thinking budget of 0
C12_Step ==
    /\ thinking_mode = "budget0" => thinking_mode' = "budget0"
    /\ thinking_mode' \in { "level", "budget0" }
    /\ \A c \in callers :
        (BuildsConfig(c) /\ thinking_mode = "budget0") =>
            call'[c].reqCfg.thinking = "budget0"

\* C12: the reasoning mode of a session starts at Level and moves one way only:
\* once it is BudgetZero no step sets it back to Level, and every request config
\* built from then on carries a thinking budget of 0.
C12_ModeOneWay == thinking_mode = "level" /\ [][C12_Step]_vars

\* C12 witness: a transcribe call that started in BudgetZero has failed over to
\* another model and built the config of its re-attempt, with budget 0.
C12_Witness ==
    \E c \in callers :
        /\ call[c].start.thinking_mode = "budget0"
        /\ thinking_mode = "budget0"
        /\ call[c].phase = "retry"
        /\ call[c].pc = "call"
        /\ call[c].reqCfg.thinking = "budget0"

(***************************************************************************)
(* Properties of name resolution.                                          *)
(***************************************************************************)
\* _resolve_model_name has been applied to the probe's arguments
Resolved == probe.op = "resolve" /\ probe.done

\* the live list: the normalized names of the listed models that generate
LiveNames(listing) ==
    { NormalizeModelName(listing.models[i].name) :
        i \in { k \in 1..Len(listing.models) :
                  /\ "generateContent" \in listing.models[k].supported_actions
                  /\ listing.models[k].name # <<>> } }

\* x is in the probe's live list and not excluded
Usable(x) == x \in LiveNames(probe.listing) /\ x \notin probe.exclude

\* the position in s of the first usable name, 0 when there is none
FirstUsable(s) ==
    IF \E i \in 1..Len(s) : Usable(s[i])
    THEN CHOOSE i \in 1..Len(s) : Usable(s[i]) /\ \A j \in 1..(i - 1) : ~Usable(s[j])
    ELSE 0

PreviewEntry ==
    [name |-> <<"models/", "gemini-3-flash-preview">>, supported_actions |-> {"generateContent"}]

Flash25Entry ==
    [name |-> <<"models/", "gemini-2.5-flash">>, supported_actions |-> {"generateContent"}]

\* C13: when the list of models was fetched, resolution returns the first
\* candidate, in candidate order, that is in the live list and not excluded,
\* whatever the order of the live list; with the live list [gemini-3-flash-preview,
\* gemini-2.5-flash] and no override it returns gemini-3-flash-preview when
\* nothing is excluded and gemini-2.5-flash when gemini-3-flash-preview is.
C13_FirstLiveCandidate ==
    (Resolved /\ probe.listing.ok) =>
        /\ FirstUsable(probe.candidates) # 0 =>
               probe.out = probe.candidates[FirstUsable(probe.candidates)]
        /\ (probe.env = <<>> /\ probe.listing.models = <<PreviewEntry, Flash25Entry>>) =>
               /\ probe.exclude = {} => probe.out = <<"gemini-3-flash-preview">>
               /\ probe.exclude = { <<"gemini-3-flash-preview">> } =>
                      probe.out = <<"gemini-2.5-flash">>

\* C13 witness: the live list holds the second candidate before the first, and
\* the first candidate is returned.
C13_Witness ==
    /\ Resolved
    /\ probe.env = <<>>
    /\ probe.exclude = {}
    /\ probe.listing.models = <<Flash25Entry, PreviewEntry>>
    /\ probe.out = <<"gemini-3-flash-preview">>

\* the explicit override of the probe: set when the variable is not blank
OverrideSet == Strip(probe.env) # <<>>

NormalizedOverride == NormalizeModelName(Strip(probe.env))

\* s without the elements equal to x
RECURSIVE Without(_, _)
Without(s, x) ==
    IF s = <<>> THEN <<>>
    ELSE IF Head(s) = x THEN Without(Tail(s), x)
    ELSE <<Head(s)>> \o Without(Tail(s), x)

\* C14: the candidate list is the normalized override, when one is set, followed
\* by the preferred models, each name once and at its first position; hence an
\* override that is in the live list and not excluded is the model resolved,
\* whatever the preferred models are.
C14_OverrideFirstNoDuplicates ==
    Resolved =>
        /\ probe.candidates =
               IF OverrideSet
               THEN <<NormalizedOverride>> \o Without(PREFERRED_MODELS, NormalizedOverride)
               ELSE PREFERRED_MODELS
        /\ \A i, j \in 1..Len(probe.candidates) :
               probe.candidates[i] = probe.candidates[j] => i = j
        /\ (probe.listing.ok /\ OverrideSet /\ Usable(NormalizedOverride)) =>
               probe.out = NormalizedOverride

\* C14 witness: the override is a preferred model listed after a preferred model
\* that comes earlier in the preferred list, and the override is resolved.
C14_Witness ==
    /\ Resolved
    /\ probe.env = <<"gemini-2.0-flash">>
    /\ probe.exclude = {}
    /\ probe.listing.models =
           <<PreviewEntry, [name |-> <<"models/", "gemini-2.0-flash">>,
                            supported_actions |-> {"generateContent"}]>>
    /\ Len(probe.candidates) = Len(PREFERRED_MODELS)
    /\ probe.out = <<"gemini-2.0-flash">>

\* the listed model at position k generates, and its normalized name is usable
UsableEntry(k) ==
    /\ "generateContent" \in probe.listing.models[k].supported_actions
    /\ probe.listing.models[k].name # <<>>
    /\ NormalizeModelName(probe.listing.models[k].name) \notin probe.exclude

\* C15: when the list of models was fetched and no candidate is both live and
\* not excluded, resolution returns the first live model, in live order, that is
\* not excluded; it returns no model exactly when every live model is excluded
\* or the live list is empty.
C15_LastResortLiveOrder ==
    (Resolved /\ probe.listing.ok) =>
        /\ FirstUsable(probe.candidates) = 0 =>
               \A k \in 1..Len(probe.listing.models) :
                   (UsableEntry(k) /\ \A j \in 1..(k - 1) : ~UsableEntry(j)) =>
                       probe.out = NormalizeModelName(probe.listing.models[k].name)
        /\ probe.out = <<>> <=> LiveNames(probe.listing) \subseteq probe.exclude

\* C15 witness: no candidate is live, the first live model is excluded, and the
\* second live model is returned.
C15_Witness ==
    /\ Resolved
    /\ probe.env = <<>>
    /\ probe.exclude = { <<"gemini-exp">> }
    /\ probe.listing.models =
           << [name |-> <<"gemini-exp">>, supported_actions |-> {"generateContent"}],
              [name |-> <<"models/", "gemini-1.5-pro">>,
               supported_actions |-> {"generateContent"}] >>
    /\ FirstUsable(probe.candidates) = 0
    /\ probe.out = <<"gemini-1.5-pro">>

\* C16: when fetching the list of models fails, resolution returns the normalized
\* override if one is set and it is not excluded, otherwise the default model if
\* it is not excluded, otherwise no model; the override gemini-3.0-flash resolves
\* to gemini-3-flash-preview.
C16_FetchFailureFallsBack ==
    (Resolved /\ ~probe.listing.ok) =>
        /\ (OverrideSet /\ NormalizedOverride \notin probe.exclude) =>
               probe.out = NormalizedOverride
        /\ (~OverrideSet \/ NormalizedOverride \in probe.exclude) =>
               /\ MODEL \notin probe.exclude => probe.out = MODEL
               /\ MODEL \in probe.exclude => probe.out = <<>>
        /\ (probe.env = <<"gemini-3.0-flash">>
                /\ <<"gemini-3-flash-preview">> \notin probe.exclude) =>
               probe.out = <<"gemini-3-flash-preview">>
        /\ (probe.env = <<" ", "models/", "gemini-1.5-pro", " ">>
                /\ <<"gemini-1.5-pro">> \notin probe.exclude) =>
               probe.out = <<"gemini-1.5-pro">>

\* C16 witness: the list cannot be fetched, the override is the legacy alias and
\* the default model is excluded; the alias target is returned.
C16_Witness ==
    /\ Resolved
    /\ ~probe.listing.ok
    /\ probe.env = <<"gemini-3.0-flash">>
    /\ probe.exclude = { MODEL }
    /\ probe.out = <<"gemini-3-flash-preview">>

\* C17: normalization of a model name is idempotent: normalizing what
\* _normalize_model_name returned gives the same name, for every model-name
\* string, a repeated "models/" prefix, whitespace before the prefix and alias
\* names included.
C17_NormalizeIdempotent ==
    (probe.op = "normalize" /\ probe.done) => probe.again = probe.out

\* the config carries exactly one of the cache reference and the inline instruction
OneInstruction(cfg) == (cfg.cached_content # <<>>) <=> ~cfg.system_instruction

\* C18: every config of a generation request carries exactly one of a cache
\* reference and the inline system instruction: the cache reference if and only
\* if the cache map holds an entry for the current model when the config is
\* built, and then that entry; either way the config carries temperature 0 and
\* the thinking directive of the current mode, the level in Level mode and a
\* budget of 0 in BudgetZero mode.
C18_ConfigOneInstruction ==
    \A c \in callers :
        LET r == call[c] IN
        /\ r.pc = "call" =>
               /\ OneInstruction(r.reqCfg)
               /\ r.reqCfg.cached_content = prompt_cache_name_by_model[model_name]
               /\ r.reqCfg.temperature = 0
               /\ r.reqCfg.thinking =
                      IF thinking_mode = "level" THEN "level" ELSE "budget0"
        /\ \A i \in 1..Len(r.trace) :
               /\ OneInstruction(r.trace[i].cfg)
               /\ r.trace[i].cfg.temperature = 0
               /\ r.trace[i].cfg.thinking \in { "level", "budget0" }

\* C18 witness: a request is about to be sent in BudgetZero mode for a model that
\* has a cache entry: its config carries the cache reference and budget 0.
C18_Witness ==
    \E c \in callers :
        /\ call[c].pc = "call"
        /\ thinking_mode = "budget0"
        /\ prompt_cache_name_by_model[model_name] # <<>>
        /\ call[c].reqCfg.cached_content = CacheNameFor(model_name)
        /\ ~call[c].reqCfg.system_instruction
        /\ call[c].reqCfg.thinking = "budget0"

\* a step in which caller c runs _ensure_prompt_cache after a switch of model
Ensures(c) == call[c].pc = "ensure" /\ call'[c].pc # "ensure"

\* the steps of C19
C19_Step ==
    /\ \A c \in callers :
        (Ensures(c) /\ (~enable_prompt_cache
                          \/ prompt_cache_name_by_model[model_name] # <<>>)) =>
            /\ call'[c].createCalls = call[c].createCalls
            /\ prompt_cache_name_by_model' = prompt_cache_name_by_model
    /\ (lifecycle = "new" /\ lifecycle' = "ready" /\ ~enable_prompt_cache) =>
            /\ init'.createCalls = 0
            /\ prompt_cache_name_by_model' = prompt_cache_name_by_model
    /\ \A m \in ModelNames :
        /\ prompt_cache_name_by_model[m] # <<>> =>
               prompt_cache_name_by_model'[m] = prompt_cache_name_by_model[m]
        /\ prompt_cache_name_by_model'[m] # prompt_cache_name_by_model[m] =>
               m = model_name'

\* C19: _ensure_prompt_cache makes no cache-create call and leaves the cache map
\* as it is when caching is disabled or when the map already holds an entry for
\* the model; so the entry of a model is never overwritten, and the map, which
\* starts empty, holds at most one entry per model, added for the current model.
C19_EnsureIsNoOp ==
    prompt_cache_name_by_model = EmptyCache /\ [][C19_Step]_vars

\* C19 witness: a transcribe call switched to a model that already had a cache
\* entry when the call started, and ensured it without a cache-create call.
C19_Witness ==
    \E c \in callers :
        /\ enable_prompt_cache
        /\ call[c].phase = "retry"
        /\ call[c].ensured = <<model_name>>
        /\ call[c].start.cache[model_name] # <<>>
        /\ call[c].start.model_name # model_name
        /\ call[c].createCalls = 0
        /\ prompt_cache_name_by_model = call[c].start.cache

\* the log holds the warning of a cache-create call that failed (line 285)
CacheCreateFailed(logs) ==
    \E i \in 1..Len(logs) : logs[i].what = "cache_unavailable"

\* the config carries the inline instruction and no cache reference
Inline(cfg) == cfg.system_instruction /\ cfg.cached_content = <<>>

\* the steps of C20: a cache-create call that fails stores nothing, construction
\* ends ready, and the failover goes on to the first request of its re-attempt
C20_Step ==
    /\ (lifecycle = "new" /\ CacheCreateFailed(init'.logs)) =>
            /\ lifecycle' = "ready"
            /\ init'.raised = ""
            /\ prompt_cache_name_by_model' = EmptyCache
    /\ \A c \in callers :
        (Ensures(c) /\ Len(call'[c].logs) > Len(call[c].logs)) =>
            /\ CacheCreateFailed(call'[c].logs)
            /\ prompt_cache_name_by_model' = prompt_cache_name_by_model
            /\ call'[c].pc = "read"
            /\ call'[c].phase = "retry"
            /\ call'[c].trace = <<>>

\* what holds of a transcribe call once its cache-create call has failed
C20_AfterFailure ==
    \A c \in callers :
        LET r == call[c] IN
        CacheCreateFailed(r.logs) =>
            /\ r.phase = "retry"
            /\ r.result.kind # "raised"
            /\ prompt_cache_name_by_model[model_name] = <<>>
            /\ r.pc = "call" => Inline(r.reqCfg)
            /\ \A i \in 1..Len(r.trace) : Inline(r.trace[i].cfg)
            /\ r.pc = "done" => r.trace # <<>>

\* C20: a cache-create call that fails is never fatal: _ensure_prompt_cache
\* raises nothing and stores no entry, so the construction of the session still
\* ends ready and a failover still goes on to its re-attempt, whose requests
\* carry the inline instruction.
C20_CacheCreateFailureNotFatal == []C20_AfterFailure /\ [][C20_Step]_vars

\* C20 witness: the cache could be created neither at construction nor after the
\* switch of model, and the re-attempt, sent with the inline instruction, returned
\* a transcription.
C20_Witness ==
    \E c \in callers :
        /\ CacheCreateFailed(init.logs)
        /\ CacheCreateFailed(call[c].logs)
        /\ call[c].pc = "done"
        /\ Len(call[c].trace) = 1
        /\ Inline(call[c].trace[1].cfg)
        /\ call[c].result.text # <<>>

\* C21: constructing a session without an API key, given or in the environment,
\* fails with ValueError before the provider is touched: no client is created,
\* no list-models call and no cache-create call is made, and the session never
\* becomes ready.
C21_NoKeyFailsBeforeProvider ==
    ~api_key =>
        /\ lifecycle \in { "new", "failed" }
        /\ ~init.client
        /\ init.listCalls = 0
        /\ init.createCalls = 0
        /\ init.logs = <<>>
        /\ model_name = <<>>
        /\ prompt_cache_name_by_model = EmptyCache
        /\ lifecycle = "failed" <=> init.raised = "ValueError"
        /\ \A c \in callers : call[c].pc = "idle"

\* C21 witness: __init__ was run without a key and raised ValueError.
C21_Witness ==
    /\ ~api_key
    /\ lifecycle = "failed"
    /\ init.raised = "ValueError"
    /\ ~init.client

\* C22: transcribe on an audio file that does not exist raises FileNotFoundError
\* before any provider call: the call makes no generate, list-models or
\* cache-create call, logs nothing, and leaves the current model, the thinking
\* mode and the cache map as they were when it started.
C22_MissingFileRaisesLocally ==
    \A c \in callers :
        LET r == call[c] IN
        (r.pc # "idle" /\ r.audio = "none") =>
            /\ r.pc = "done"
            /\ r.result.kind = "raised"
            /\ r.result.exc = "FileNotFoundError"
            /\ r.genCalls = 0 /\ r.listCalls = 0 /\ r.createCalls = 0
            /\ r.trace = <<>> /\ r.logs = <<>> /\ r.switches = 0
            /\ model_name = r.start.model_name
            /\ thinking_mode = r.start.thinking_mode
            /\ prompt_cache_name_by_model = r.start.cache

\* C22 witness: a session that had moved to BudgetZero and holds a cache entry is
\* asked to transcribe a missing file, and raises.
C22_Witness ==
    \E c \in callers :
        /\ call[c].pc = "done"
        /\ call[c].audio = "none"
        /\ call[c].result.exc = "FileNotFoundError"
        /\ thinking_mode = "budget0"
        /\ prompt_cache_name_by_model[model_name] # <<>>

(***************************************************************************)
(* Properties of the text of a response.                                   *)
(***************************************************************************)
\* s holds a tag: "<", then one or more characters other than ">", then ">"
HasTag(s) ==
    \E i, j \in 1..Len(s) :
        /\ j >= i + 2
        /\ s[i] = "<"
        /\ s[j] = ">"
        /\ \A k \in (i + 1)..(j - 1) : s[k] # ">"

\* s neither starts nor ends with whitespace
Trimmed(s) == s = <<>> \/ (s[1] \notin Whitespace /\ s[Len(s)] \notin Whitespace)

\* C23: for every response text, the text transcribe returns on success has no
\* leading or trailing whitespace and holds no tag ("<", one or more characters
\* other than ">", ">"); cleaning the returned text again changes nothing.
C23_CleanedTextIsCanonical ==
    (probe.op = "clean" /\ probe.done) =>
        /\ Trimmed(probe.out)
        /\ ~HasTag(probe.out)
        /\ probe.again = probe.out

\* C23 witness: a text with a tag followed by a blank is cleaned to its letter.
C23_Witness ==
    /\ probe.op = "clean"
    /\ probe.done
    /\ probe.text = <<"<", "a", ">", " ", "a">>
    /\ probe.out = <<"a">>

\* the concatenation of the sequences of ss, in order
RECURSIVE Concat(_)
Concat(ss) ==
    IF ss = <<>> THEN <<>>
    ELSE Concat(SubSeq(ss, 1, Len(ss) - 1)) \o ss[Len(ss)]

\* the text fragments of a candidate, one per part, "" for a part without text
Fragments(candidate) ==
    IF ~candidate.hasContent THEN <<>>
    ELSE Concat([i \in 1..Len(candidate.parts) |->
                    IF candidate.parts[i].text.isStr THEN candidate.parts[i].text.s
                    ELSE <<>>])

\* C24: _extract_response_text returns the direct text of the response when it
\* is a non-empty string; otherwise the concatenation, in order and without
\* separator, of the text of every part of every candidate's content; a response
\* without candidates, content or parts gives the empty string.
C24_ExtractDirectElseParts ==
    (probe.op = "extract" /\ probe.done) =>
        LET r == probe.response IN
        /\ (r.text.isStr /\ r.text.s # <<>>) => probe.out = r.text.s
        /\ ~(r.text.isStr /\ r.text.s # <<>>) =>
               /\ probe.out =
                      Concat([i \in 1..Len(r.candidates) |-> Fragments(r.candidates[i])])
               /\ (\A i \in 1..Len(r.candidates) :
                       ~r.candidates[i].hasContent \/ r.candidates[i].parts = <<>>) =>
                      probe.out = <<>>

\* C24 witness: the direct text is the empty string, and the texts of the parts of
\* two candidates are joined in order, a part without text being skipped.
C24_Witness ==
    /\ probe.op = "extract"
    /\ probe.done
    /\ probe.response.text = Str(<<>>)
    /\ Len(probe.response.candidates) = 2
    /\ Len(probe.response.candidates[1].parts) = 3
    /\ Len(probe.response.candidates[2].parts) = 1
    /\ probe.out = <<"c", "d", "b", " ">>

(***************************************************************************)
(* Properties of the classification of failures.                           *)
(***************************************************************************)
Classified == probe.op = "classify" /\ probe.done

\* the lower-cased message mentions the cached-content entity
MentionsCacheEntity(m) == \E i \in 1..Len(m) : m[i] \in { "cachedcontent", "cached" }

\* the lower-cased message reports a not-found or expired condition
MentionsGone(m) ==
    \/ \E i \in 1..(Len(m) - 1) : m[i] = "not" /\ m[i + 1] = "found"
    \/ \E i \in 1..Len(m) : m[i] = "expired"

\* the lower-cased message reports a permission-denied condition
MentionsDenied(m) ==
    \E i \in 1..Len(m) : m[i] \in { "permission_denied", "permission_denied:" }

Handled == probe.op = "handle" /\ probe.done

\* the fault kind of a failure, ThinkingUnsupported and CacheInvalid being looked
\* for before Transient and ModelNotFound
FaultKind(e) ==
    IF IsThinkingLevelUnsupportedError(e) THEN "ThinkingUnsupported"
    ELSE IF IsCachedContentError(e) THEN "CacheInvalid"
    ELSE IF IsTransientApiError(e) THEN "Transient"
    ELSE IF IsModelNotFoundError(e) THEN "ModelNotFound"
    ELSE "Fatal"

\* what the retry loop does with a failure of a kind: the one-shot downgrade for
\* ThinkingUnsupported in Level mode, a sleep and another attempt for Transient
\* while retries remain, and otherwise the failure is raised
KindHandling(kind, mode, attempt) ==
    IF kind = "ThinkingUnsupported" /\ mode = "level" THEN "downgrade"
    ELSE IF kind = "Transient" /\ attempt < MAX_TRANSIENT_RETRIES THEN "sleep"
    ELSE "raise"

\* C26: every failure is handled as exactly one fault kind, under a fixed
\* precedence: a failure that matches the ThinkingUnsupported or the CacheInvalid
\* pattern is handled as that kind even when it also matches the Transient or
\* the ModelNotFound pattern, in Level mode and in BudgetZero mode alike.
C26_HandledByPrecedence ==
    Handled =>
        probe.action = KindHandling(FaultKind(probe.message), probe.mode, probe.attempt)

\* C27: inside _generate_content_with_retry a failure of kind ModelNotFound,
\* CacheInvalid or Fatal is raised at once: no sleep, no further call.
C27_NonTransientRaisedAtOnce ==
    (Handled /\ FaultKind(probe.message) \in { "ModelNotFound", "CacheInvalid", "Fatal" }) =>
        probe.action = "raise"

\* the last entry of logs is a warning about what
WarnedLast(logs, what) ==
    /\ logs # <<>>
    /\ Last(logs).level = "warning"
    /\ Last(logs).what = what

\* C28: no failure is silent: a transcribe call that ends because of a failure
\* of the provider logs, last of all, an error carrying the elapsed time it
\* returns and the model the failing request targeted, and returns ("", elapsed);
\* and each failure that is absorbed is followed by a warning: the transient
\* failure that is retried, the refused thinking level, the failure that makes
\* the call switch model, and the cache-create call that fails.
C28_NoSilentFailure ==
    /\ init.createFailed => WarnedLast(init.logs, "cache_unavailable")
    /\ \A c \in callers :
        LET r == call[c] IN
        /\ (r.pc = "done" /\ r.trace # <<>> /\ Failed(Last(r.trace))) =>
               /\ EmptyPair(r)
               /\ r.logs # <<>>
               /\ Last(r.logs) =
                      Log("error", "api_failed", Last(r.trace).model, r.result.elapsed)
        /\ r.pc = "sleep" => WarnedLast(r.logs, "retry")
        /\ (r.pc = "read" /\ r.site = "downgrade") => WarnedLast(r.logs, "downgrade")
        /\ r.pc \in { "switch", "ensure" } => WarnedLast(r.logs, "switch")
        /\ (r.pc = "read" /\ r.phase = "retry" /\ r.trace = <<>> /\ r.createFailed) =>
               WarnedLast(r.logs, "cache_unavailable")

\* C28 witness: a call retried a transient failure, switched model, could not
\* create the cache, failed again and ended with the error log.
C28_Witness ==
    \E c \in callers :
        LET r == call[c] IN
        /\ r.pc = "done"
        /\ r.phase = "retry"
        /\ r.createFailed
        /\ r.trace # <<>>
        /\ Failed(Last(r.trace))
        /\ Len(r.logs) >= 4
        /\ r.logs[1].what = "retry"
        /\ Last(r.logs).level = "error"
        /\ Last(r.logs).model = model_name
        /\ Last(r.logs).elapsed = r.ticks

\* C29: every generate call the session makes carries the per-call timeout,
\* TIMEOUT seconds.
C29_EveryCallCarriesTimeout ==
    \A c \in callers :
        \A i \in 1..Len(call[c].trace) : call[c].trace[i].timeouts = { TIMEOUT }

ThinkingLevels == { "MINIMAL", "LOW", "MEDIUM", "HIGH" }

LevelResolved == probe.op = "thinking_level" /\ probe.done

\* the probe's configured level is the string value
LevelIs(value) == probe.raw.set /\ probe.raw.value = value

\* C30: the configured thinking level resolves to one of the four levels,
\* minimal, low, medium and high, whatever the case of its letters and the
\* whitespace around it; any other value resolves to minimal, with a warning;
\* nothing is raised, so the construction goes on.
C30_ThinkingLevelResolves ==
    LevelResolved =>
        /\ probe.level.level \in ThinkingLevels
        /\ ~probe.level.raised
        /\ probe.level.warned => probe.level.level = "MINIMAL"
        /\ (LevelIs(<<"minimal">>) \/ LevelIs(<<"MINIMAL">>) \/ ~probe.raw.set) =>
               (probe.level.level = "MINIMAL" /\ ~probe.level.warned)
        /\ (LevelIs(<<"low">>) \/ LevelIs(<<"Low">>)) =>
               (probe.level.level = "LOW" /\ ~probe.level.warned)
        /\ (LevelIs(<<"medium">>) \/ LevelIs(<<" ", "Medium", "\n">>)) =>
               (probe.level.level = "MEDIUM" /\ ~probe.level.warned)
        /\ (LevelIs(<<"high">>) \/ LevelIs(<<"HIGH">>) \/ LevelIs(<<"HIGH", " ">>)) =>
               (probe.level.level = "HIGH" /\ ~probe.level.warned)
        /\ (LevelIs(<<>>) \/ LevelIs(<<" ">>) \/ LevelIs(<<"max">>) \/ LevelIs(<<"Max">>)
                \/ LevelIs(<<"low", " ", "high">>) \/ LevelIs(<<"none">>)) =>
               (probe.level.level = "MINIMAL" /\ probe.level.warned)

\* C30 witness: an upper-case level with a trailing blank resolved to its level.
C30_Witness ==
    /\ LevelResolved
    /\ LevelIs(<<"HIGH", " ">>)
    /\ probe.level.level = "HIGH"

\* the sleeps of the current execute that a request of the retry loop followed
\* or is about to follow
RetriesOf(r) ==
    IF r.trace = <<>> THEN 0
    ELSE IF r.pc \in { "read", "build", "call" } /\ r.site = "loop" THEN LoopCalls(r)
    ELSE LoopCalls(r) - 1

Mismatched(model, cfg) ==
    cfg.cached_content # <<>> /\ cfg.cached_content # CacheNameFor(model)

MismatchPending(c) ==
    call[c].pc = "call" /\ Mismatched(call[c].reqModel, call[c].reqCfg)

\* a step in which caller c reads the model of a request
ReadsModel(c) == call[c].pc = "read" /\ call'[c].pc = "build"

\* a step in which caller c assigns model_name
Switches(c) == call[c].pc = "switch" /\ call'[c].pc = "ensure"

C32_Step ==
    \A c \in callers :
        /\ ReadsModel(c) => call'[c].reqModel = model_name
        /\ BuildsConfig(c) =>
               call'[c].reqCfg = BuildGenerateConfig(thinking_mode,
                                     prompt_cache_name_by_model, model_name)
        /\ (call[c].pc = "build" /\ call[c].reqModel = model_name
              /\ model_name' # model_name) =>
               \E d \in callers \ {c} : Switches(d)
        /\ (~MismatchPending(c) /\ MismatchPending(c)') =>
               (BuildsConfig(c) /\ call[c].reqModel # model_name)

\* C32: with two calls of transcribe interleaving on one session, the model of a
\* request is read from model_name at one step (line 300) and the cache name of its
\* config is looked up under model_name as it is at a later step (line 249); between
\* the two only a switch of the other call changes model_name, and a request whose
\* cache name is not the one of its target model arises only at a config built after
\* such a switch.
C32_TargetAndCacheReadApart == [][C32_Step]_vars

\* C32 witness: a request was sent to one model with the cache name stored for
\* another, the model the other call had switched to in between.
C32_Witness ==
    \E c \in callers, d \in callers :
        /\ c # d
        /\ call[d].switches = 1
        /\ \E i \in 1..Len(call[c].trace) :
               /\ call[c].trace[i].model # call[d].fallback_model
               /\ call[c].trace[i].cfg.cached_content = CacheNameFor(call[d].fallback_model)
               /\ prompt_cache_name_by_model[call[d].fallback_model]
                      = call[c].trace[i].cfg.cached_content

\* the normalized names of the listed models that do not generate
ListedWithoutGenerate(listing) ==
    { NormalizeModelName(listing.models[i].name) :
        i \in { k \in 1..Len(listing.models) :
                  "generateContent" \notin listing.models[k].supported_actions } }

\* C33: when the list of models was fetched, a result other than "" is one of the
\* normalized names of the listed models that support generateContent; a model
\* listed only without that support is never the result, the override included.
C33_ResultIsLiveAndGenerates ==
    (Resolved /\ probe.listing.ok /\ probe.out # <<>>) =>
        /\ probe.out \in LiveNames(probe.listing)
        /\ probe.out \notin
               (ListedWithoutGenerate(probe.listing) \ LiveNames(probe.listing))
        /\ (OverrideSet /\ NormalizedOverride \notin LiveNames(probe.listing)) =>
               probe.out # NormalizedOverride

\* C33 witness: the override names a model that is listed, first, without
\* generateContent; the other listed model is returned.
C33_Witness ==
    /\ Resolved
    /\ probe.listing.ok
    /\ probe.env = <<"embedding-001">>
    /\ Len(probe.listing.models) = 2
    /\ probe.listing.models[1].name = <<"models/", "embedding-001">>
    /\ probe.exclude = {}
    /\ probe.out = <<"gemini-1.5-pro">>

\* C34: _resolve_model_name(exclude) never returns a member of exclude, whether
\* the list could not be fetched (override, default) or was fetched (candidate,
\* last resort); with the exclusion set of a failover, the model that failed, the
\* result differs from that model.
C34_NeverReturnsExcluded ==
    Resolved =>
        /\ probe.out \notin probe.exclude
        /\ \A current \in ModelNames \ { <<>> } :
               probe.exclude = FailoverExclude(current) => probe.out # current

\* C34 witness: the list was fetched; the only live candidate, which is also the
\* first live model, is the model that failed, and the other live model is returned.
C34_Witness ==
    /\ Resolved
    /\ probe.listing.ok
    /\ probe.env = <<>>
    /\ probe.exclude = FailoverExclude(<<"gemini-3-flash-preview">>)
    /\ Len(probe.listing.models) = 2
    /\ probe.listing.models[1] = PreviewEntry
    /\ probe.out = <<"gemini-1.5-pro">>

\* C35: with one call of transcribe at a time, a request whose config names a
\* cache carries the name of the cache that was created for the model the request
\* is sent to, which is the entry of that model in the cache dict.
C35_CacheMatchesTarget ==
    \A c \in callers :
        LET r == call[c] IN
        /\ r.pc = "call" =>
               /\ ~Mismatched(r.reqModel, r.reqCfg)
               /\ r.reqCfg.cached_content = prompt_cache_name_by_model[r.reqModel]
        /\ \A i \in 1..Len(r.trace) :
               /\ ~Mismatched(r.trace[i].model, r.trace[i].cfg)
               /\ r.trace[i].cfg.cached_content =
                      prompt_cache_name_by_model[r.trace[i].model]
        /\ \A m \in ModelNames :
               prompt_cache_name_by_model[m] \in { <<>>, CacheNameFor(m) }

\* C35 witness: after a failover the request went to the replacement with the
\* cache created for the replacement, while the dict also holds the cache of the
\* model that failed.
C35_Witness ==
    \E c \in callers :
        /\ call[c].phase = "retry"
        /\ call[c].trace # <<>>
        /\ call[c].trace[1].model = call[c].fallback_model
        /\ call[c].trace[1].model # call[c].start.model_name
        /\ call[c].trace[1].cfg.cached_content = CacheNameFor(call[c].fallback_model)
        /\ prompt_cache_name_by_model[call[c].start.model_name] # <<>>

\* C36: once __init__ has returned, model_name is never "": not when the list of
\* models was fetched and holds no model that supports generateContent, and not
\* after a failover.
C36_ModelNeverEmpty ==
    lifecycle = "ready" => model_name # <<>>

\* caller c's transcribe ended with ("", elapsed) because the re-attempt on the
\* replacement model failed
ReattemptFailed(c) ==
    call[c].pc = "done" /\ call[c].retry_error # <<>> /\ EmptyPair(call[c])

C37_Step ==
    \A c \in callers :
        (ReattemptFailed(c) /\ call'[c] # call[c]) =>
            /\ model_name' = call[c].fallback_model
            /\ call'[c].start.model_name = call[c].fallback_model
            /\ call'[c].start.model_name # call[c].start.model_name

\* C37: when the re-attempt of a failover fails and transcribe returns
\* ("", elapsed), model_name stays the replacement; the next transcribe starts
\* with it, and its first request goes to it.
C37_FailoverNotRolledBack ==
    /\ [](\A c \in callers :
            /\ ReattemptFailed(c) =>
                   /\ model_name = call[c].fallback_model
                   /\ model_name # call[c].start.model_name
            /\ (call[c].phase = "first" /\ call[c].trace # <<>>) =>
                   call[c].trace[1].model = call[c].start.model_name)
    /\ [][C37_Step]_vars

\* C37 witness: the re-attempt on the replacement failed with a quota error, the
\* call returned ("", elapsed), and model_name is the replacement, not the model
\* the call started with.
C37_Witness ==
    \E c \in callers :
        /\ ReattemptFailed(c)
        /\ call[c].retry_error = MsgQuota
        /\ call[c].start.model_name = <<"gemini-3-flash-preview">>
        /\ model_name = <<"gemini-2.5-flash">>
        /\ call[c].ensured = << model_name >>

\* a step in which caller c looks for a replacement model
Resolves(c) == call[c].pc = "resolve" /\ call'[c].pc # "resolve"

C38_Step ==
    \A c \in callers :
        Resolves(c) =>
            \E listing \in ListOutcomes :
                LET found == ResolveModelName(env_model, { model_name }, listing) IN
                /\ call'[c].fallback_model = found
                /\ call'[c].pc = IF found # <<>> THEN "switch" ELSE "done"

\* C38: the replacement of a failover is what _resolve_model_name returns when the
\* exclusion set holds model_name as it is at the failure and nothing else; the
\* models abandoned by earlier calls are not in it, so that a later failover may
\* return to one of them.
C38_ExcludesOnlyCurrent == [][C38_Step]_vars

\* C38 witness: a call that started on gemini-2.5-flash switched to
\* gemini-3-flash-preview, a model whose cache existed before the call started:
\* the session had used it and an earlier failover had abandoned it.
C38_Witness ==
    \E c \in callers :
        /\ call[c].switches = 1
        /\ call[c].start.model_name = <<"gemini-2.5-flash">>
        /\ call[c].start.cache[<<"gemini-2.5-flash">>] # <<>>
        /\ call[c].start.cache[<<"gemini-3-flash-preview">>] # <<>>
        /\ call[c].fallback_model = <<"gemini-3-flash-preview">>
        /\ model_name = <<"gemini-3-flash-preview">>

\* C39: when the prompt cache is disabled the cache dict is empty in every state,
\* client.caches.create is never called, by __init__ or by a failover, and every
\* request carries the inline system instruction and no cache name.
C39_DisabledCacheNeverUsed ==
    ~enable_prompt_cache =>
        /\ prompt_cache_name_by_model = EmptyCache
        /\ init.createCalls = 0
        /\ ~init.createFailed
        /\ \A c \in callers :
               LET r == call[c] IN
               /\ r.createCalls = 0
               /\ ~r.createFailed
               /\ r.pc # "idle" => r.start.cache = EmptyCache
               /\ r.pc = "call" => Inline(r.reqCfg)
               /\ \A i \in 1..Len(r.trace) : Inline(r.trace[i].cfg)

\* C39 witness: with the cache disabled a failover switched the model, created no
\* cache for the replacement, and sent the re-attempt with the inline instruction.
C39_Witness ==
    /\ ~enable_prompt_cache
    /\ lifecycle = "ready"
    /\ \E c \in callers :
           /\ call[c].phase = "retry"
           /\ call[c].switches = 1
           /\ call[c].ensured = << model_name >>
           /\ call[c].createCalls = 0
           /\ call[c].trace # <<>>
           /\ Inline(call[c].trace[1].cfg)

\* the first request of caller c's transcribe was answered with a response
FirstCallSucceeded(r) ==
    r.phase = "first" /\ Len(r.trace) = 1 /\ ~Failed(r.trace[1]) /\ r.genCalls = 1

C40_Bounds ==
    \A c \in callers :
        LET r == call[c] IN
        /\ r.genCalls <= 2 * (MAX_TRANSIENT_RETRIES + 2)
        /\ r.listCalls <= 1
        /\ r.createCalls <= 1
        /\ r.executes <= 2
        /\ r.attempt <= MAX_TRANSIENT_RETRIES
        /\ FirstCallSucceeded(r) =>
               /\ r.pc = "done"
               /\ r.genCalls + r.listCalls + r.createCalls = 1
               /\ r.sleeps = <<>>
               /\ Snapshot = r.start

\* C40: when every call to the provider returns, every transcribe call ends; one
\* transcribe call makes at most 2 * (MAX_TRANSIENT_RETRIES + 2) generate calls, at
\* most one list-models call and at most one cache-create call; and a call whose
\* first generate call succeeds makes that one provider call and leaves model_name,
\* the thinking mode and the cache dict as they were.
C40_TranscribeTerminates ==
    /\ []C40_Bounds
    /\ \A c \in LiveCallers : (call[c].pc \in StepPcs) ~> (call[c].pc = "done")

\* C40 witness: a call ended after the most generate calls a call can make, five:
\* a Transient failure, a refused thinking level and a failed downgrade request in
\* the first execute, and two Transient failures on the replacement model.
C40_Witness ==
    \E c \in callers :
        /\ call[c].pc = "done"
        /\ call[c].genCalls = 2 * MAX_TRANSIENT_RETRIES + 3
        /\ call[c].listCalls = 1
        /\ call[c].createCalls = 1
        /\ call[c].executes = 2
        /\ EmptyPair(call[c])

====
